---- MODULE Spec2Model ----
(***************************************************************************)
(* Event hub server (supabase/functions/server/index.tsx) and the client   *)
(* eligibility filters: the key-value store, the request handlers and the  *)
(* notification fan-out, as a state machine.                               *)
(***************************************************************************)
EXTENDS Integers, Sequences, FiniteSets, TLC

\* ------------------------------------------------------------------ bounds
NumStaff == 3
NumLevelSlots == 3
MaxOps == 3
MaxLevelOps == 3
MaxRequests == 2
MaxClock == 2
MaxPayloadFields == 1
MaxEditOps == 2
MaxPoints == 3

\* ------------------------------------------------------------- value sets
Staff == 1..NumStaff
LevelIds == 1..NumLevelSlots
EventIds == {"e1", "e2"}
ReqIds == {"r1", "r2"}
LevelNames == {"L1", "L2", "L3"}
NoName == ""
NoLevel == [id |-> 0, name |-> NoName, minPoints |-> -1, order |-> -1]
NoUser == [role |-> "none", status |-> "none", points |-> -1, level |-> NoName,
           chat |-> FALSE, phone |-> FALSE]
NoStatus == "none"
\* the principals: the administrator, whose record is not among the staff records,
\* and a client without a valid access token
Admin == 0
Anonymous == -1
Statuses == {"draft", "open", "closed", "cancelled", "upcoming"}

\* no selection notice attempted yet; the history is kept when 'on' is set
NoNotices == [on |-> FALSE, of |-> [e \in EventIds |-> [s \in Staff |-> "none"]]]

VARIABLES
    levels,       \* kv "level:<id>"  : LevelIds -> level record or NoLevel
    users,        \* kv "user:<id>"   : Staff -> user record or NoUser
    events,       \* kv "event:<id>"  : EventIds -> event record
    adjustments,  \* kv "adjustment:<id>" : set of records, one per key
    channels,     \* telegram:settings.connected and RESEND_API_KEY present
    now,          \* Date.now()
    reqs,         \* in-flight confirm requests: ReqIds -> request record
    last,         \* the last completed request: what it was and what it answered
    sent,         \* the send attempts of the last completed request, in order
    credited,     \* history: Staff -> number of times event points were written to the user
    overlapped,   \* history: some confirm request started while another was in flight
    nops,         \* history: number of requests started
    session,      \* the user whose access token the client holds: requests carry it
    notice        \* history: the last selection notice attempted per event and staff member

vars == <<levels, users, events, adjustments, channels, now, reqs, last, sent,
          credited, overlapped, nops, session, notice>>

\* ---------------------------------------------------------- list helpers
Range(s) == {s[i] : i \in 1..Len(s)}
Includes(s, x) == \E i \in 1..Len(s) : s[i] = x
Filter(s, Test(_)) == SelectSeq(s, Test)
Count(s, x) == Cardinality({i \in 1..Len(s) : s[i] = x})
NoDup(s) == \A i, j \in 1..Len(s) : s[i] = s[j] => i = j

RECURSIVE SetToSeq(_)
SetToSeq(S) ==
    IF S = {} THEN <<>>
    ELSE LET x == CHOOSE y \in S : \A z \in S : y <= z
         IN <<x>> \o SetToSeq(S \ {x})

\* ------------------------------------------------------------ level table
\* kv.getByPrefix('level:'): the stored level records, in key order
StoredLevels == SelectSeq([i \in 1..NumLevelSlots |-> levels[i]], LAMBDA l : l # NoLevel)

RECURSIVE InsertBy(_, _, _, _)
InsertBy(x, s, fld, sign) ==
    IF s = <<>> THEN <<x>>
    ELSE IF sign * x[fld] < sign * s[1][fld] THEN <<x>> \o s
    ELSE <<s[1]>> \o InsertBy(x, Tail(s), fld, sign)

RECURSIVE SortBy(_, _, _)
\* Array.prototype.sort((a, b) => sign * (a[fld] - b[fld])): stable
SortBy(s, fld, sign) ==
    IF s = <<>> THEN <<>>
    ELSE InsertBy(s[Len(s)], SortBy(SubSeq(s, 1, Len(s) - 1), fld, sign), fld, sign)

\* levels.sort((a, b) => a.order - b.order)
SortedLevels(ls) == SortBy(ls, "order", 1)

\* sortedLevels.find(l => l.name === name); NoLevel stands for undefined
FindLevel(sorted, name) ==
    IF \E i \in 1..Len(sorted) : sorted[i].name = name
    THEN sorted[CHOOSE i \in 1..Len(sorted) :
                   /\ sorted[i].name = name
                   /\ \A j \in 1..(i - 1) : sorted[j].name # name]
    ELSE NoLevel

\* ------------------------------------------------------------ eligibility
\* the comparison of the eligibility filter turned round
ServerCanAccess_Reversed(staffLevelName, requiredLevel, ls) ==
    LET sortedLevels == SortedLevels(ls)
        eventLevel == FindLevel(sortedLevels, requiredLevel)
        staffLevel == FindLevel(sortedLevels, staffLevelName)
    IN  /\ eventLevel # NoLevel
        /\ staffLevelName # NoName
        /\ staffLevel # NoLevel
        /\ staffLevel.order <= eventLevel.order

\* POST /events: eventLevel && staff.level && staffLevel && staffLevel.order >= eventLevel.order
ServerCanAccess(staffLevelName, requiredLevel, ls) ==
    LET sortedLevels == SortedLevels(ls)
        eventLevel == FindLevel(sortedLevels, requiredLevel)
        staffLevel == FindLevel(sortedLevels, staffLevelName)
    IN  /\ eventLevel # NoLevel
        /\ staffLevelName # NoName
        /\ staffLevel # NoLevel
        /\ staffLevel.order >= eventLevel.order

\* an event whose required level is unknown treated as open to every levelled staff member
canAccessEvent_FailOpen(currentLevel, requiredLevel, ls) ==
    LET sortedLevels == SortedLevels(ls)
        currentLevelObj == FindLevel(sortedLevels, currentLevel)
        requiredLevelObj == FindLevel(sortedLevels, requiredLevel)
    IN  IF currentLevelObj = NoLevel THEN FALSE
        ELSE IF requiredLevelObj = NoLevel THEN TRUE
        ELSE requiredLevelObj.order <= currentLevelObj.order

\* EventList.tsx canAccessEvent
canAccessEvent(currentLevel, requiredLevel, ls) ==
    LET sortedLevels == SortedLevels(ls)
        currentLevelObj == FindLevel(sortedLevels, currentLevel)
        requiredLevelObj == FindLevel(sortedLevels, requiredLevel)
    IN  IF currentLevelObj = NoLevel THEN FALSE
        ELSE IF requiredLevelObj = NoLevel THEN FALSE
        ELSE requiredLevelObj.order <= currentLevelObj.order

\* StaffDashboard.tsx eligibleEvents filter, for one event
eligibleEvents(level, event, ls) ==
    LET sortedLevels == SortedLevels(ls)
        currentLevelObj == FindLevel(sortedLevels, level)
        requiredLevelObj == FindLevel(sortedLevels, event.requiredLevel)
    IN  IF currentLevelObj = NoLevel THEN FALSE
        ELSE IF requiredLevelObj = NoLevel THEN FALSE
        ELSE IF event.status = "draft" \/ event.status = "cancelled" THEN FALSE
        ELSE requiredLevelObj.order <= currentLevelObj.order

\* calculateLevel with the thresholds tried from the lowest up
calculateLevel_LowestFirst(points, ls) ==
    IF Len(ls) = 0 THEN NoName
    ELSE LET sortedLevels == SortBy(ls, "minPoints", 1)
         IN IF \E i \in 1..Len(sortedLevels) : points >= sortedLevels[i].minPoints
            THEN sortedLevels[CHOOSE i \in 1..Len(sortedLevels) :
                     /\ points >= sortedLevels[i].minPoints
                     /\ \A j \in 1..(i - 1) : points < sortedLevels[j].minPoints].name
            ELSE SortBy(sortedLevels, "order", 1)[1].name

\* calculateLevel(points)
calculateLevel(points, ls) ==
    IF Len(ls) = 0 THEN NoName
    ELSE LET sortedLevels == SortBy(ls, "minPoints", -1)
         IN IF \E i \in 1..Len(sortedLevels) : points >= sortedLevels[i].minPoints
            THEN sortedLevels[CHOOSE i \in 1..Len(sortedLevels) :
                     /\ points >= sortedLevels[i].minPoints
                     /\ \A j \in 1..(i - 1) : points < sortedLevels[j].minPoints].name
            ELSE SortBy(sortedLevels, "order", 1)[1].name

\* a level-up reported for every points mutation
LeveledUp_Always(oldLevel, newLevel) == TRUE

\* oldLevel !== newLevel
LeveledUp(oldLevel, newLevel) == oldLevel # newLevel

\* ------------------------------------------------------------------ records
TextValues == {"a", "b"}
MinPointValues == {0, 2}
DateValues == {1, 2}
PointValues == {1, 2}
Absent == "absent"
TextFields == {"name", "time", "location", "duration", "description", "notes"}
ComparedFields == TextFields \cup {"date", "points", "requiredLevel"}

FieldValues(f) ==
    IF f = "date" THEN DateValues
    ELSE IF f = "points" THEN PointValues
    ELSE IF f = "requiredLevel" THEN LevelNames
    ELSE TextValues

\* a stored event; a missing list reads as [] and a missing flag as false
NewEvent(status, requiredLevel, points) ==
    [status |-> status, name |-> "a", date |-> 1, time |-> "a", location |-> "a",
     duration |-> "a", description |-> "a", notes |-> "a",
     points |-> points, requiredLevel |-> requiredLevel,
     signedUpStaff |-> <<>>, signUpTimestamps |-> {}, confirmedStaff |-> <<>>,
     pointsAwarded |-> <<>>, hasBeenClosedBefore |-> FALSE]

NoEvent == [NewEvent(NoStatus, NoName, -1) EXCEPT !.name = Absent]

NewStaff(points, level, chat, phone) ==
    [role |-> "staff", status |-> "active", points |-> points, level |-> level,
     chat |-> chat, phone |-> phone]

\* the seed level table of POST /init
SeedLevels ==
    [i \in LevelIds |->
        IF i = 1 THEN [id |-> 1, name |-> "L1", minPoints |-> 0, order |-> 0]
        ELSE IF i = 2 THEN [id |-> 2, name |-> "L2", minPoints |-> 2, order |-> 1]
        ELSE NoLevel]

\* ------------------------------------------------------- request outcome
Idle == [pc |-> "idle", op |-> "none", eventId |-> "e1", staffId |-> 0,
         event |-> NoEvent, existingEvent |-> NoEvent, staff |-> NoUser,
         level |-> NoLevel, staffToConfirm |-> <<>>, todo |-> <<>>,
         newPoints |-> 0, newLevel |-> NoName, levelUps |-> {},
         allEvents |-> <<>>, eventsLeft |-> {},
         participatingStaff |-> <<>>, withChat |-> <<>>, attempts |-> <<>>]

Outcome(op, code) ==
    [op |-> op, code |-> code, eventId |-> "e1", staffId |-> 0, before |-> NoEvent,
     approved |-> <<>>, selected |-> <<>>, deselected |-> <<>>, recipients |-> <<>>,
     status |-> Absent, changes |-> {}, levelUps |-> {}, leveledUp |-> FALSE,
     levelId |-> 0, direction |-> "none",
     points |-> 0, oldPoints |-> 0]

\* one send attempt: the channel client was called for this staff member
Attempt(kind, staffId, channel, ok) ==
    [kind |-> kind, staffId |-> staffId, channel |-> channel, ok |-> ok]

\* staff.telegramChatId present and non-blank
HasChat(staffId) == users[staffId] # NoUser /\ users[staffId].chat

\* a send loop that ends at the first failed send
Attempts_StopAtFailure(kind, to, channel) ==
    {[i \in 1..n |-> Attempt(kind, to[i], channel, i < n)] : n \in 1..Len(to)}
       \cup {[i \in 1..Len(to) |-> Attempt(kind, to[i], channel, TRUE)]}

\* the possible records of one send loop: one attempt per id, each succeeding or failing
Attempts(kind, to, channel) ==
    {[i \in 1..Len(to) |-> Attempt(kind, to[i], channel, ok[i])] :
        ok \in [1..Len(to) -> BOOLEAN]}

\* the Telegram loop run without looking at telegram:settings
TelegramAttempts_IgnoringSettings(kind, ids) ==
    Attempts(kind, SelectSeq(ids, HasChat), "telegram")

\* a Telegram loop over a list of staff ids: kv.get each, skip the missing and
\* those without a chat id, call sendTelegramMessage for the others
TelegramAttempts(kind, ids) ==
    IF channels.telegram THEN Attempts(kind, SelectSeq(ids, HasChat), "telegram")
    ELSE {<<>>}

\* ------------------------------------------------------------- level routes
\* everything a level route leaves alone
LevelFrame == UNCHANGED <<users, adjustments, channels, now, reqs, credited, overlapped, session, notice>>

\* POST /levels
AddLevel(name, minPoints) ==
    /\ nops < MaxLevelOps
    /\ \E i \in LevelIds : levels[i] = NoLevel
    /\ LET levelId == CHOOSE i \in LevelIds :
                          levels[i] = NoLevel /\ \A j \in 1..(i - 1) : levels[j] # NoLevel
           level == [id |-> levelId, name |-> name, minPoints |-> minPoints,
                     order |-> Len(StoredLevels)]
       IN levels' = [levels EXCEPT ![levelId] = level]
    /\ last' = Outcome("addLevel", 200)
    /\ sent' = <<>>
    /\ nops' = nops + 1
    /\ UNCHANGED events
    /\ LevelFrame

\* PUT /levels/:id
UpdateLevel(levelId, name, minPoints) ==
    /\ nops < MaxLevelOps
    /\ IF levels[levelId] = NoLevel
       THEN /\ last' = Outcome("updateLevel", 404)
            /\ UNCHANGED levels
       ELSE /\ levels' = [levels EXCEPT ![levelId] =
                             [@ EXCEPT !.name = name, !.minPoints = minPoints]]
            /\ last' = Outcome("updateLevel", 200)
    /\ sent' = <<>>
    /\ nops' = nops + 1
    /\ UNCHANGED events
    /\ LevelFrame

\* DELETE /levels/:id
DeleteLevel(levelId) ==
    /\ nops < MaxLevelOps
    /\ levels' = [levels EXCEPT ![levelId] = NoLevel]
    /\ last' = [Outcome("deleteLevel", 200) EXCEPT !.before = levels[levelId]]
    /\ sent' = <<>>
    /\ nops' = nops + 1
    /\ UNCHANGED events
    /\ LevelFrame

\* findIndex(l => l.id === levelId) in the order-sorted list; 0 stands for -1
IndexOfLevel(sorted, levelId) ==
    IF \E i \in 1..Len(sorted) : sorted[i].id = levelId
    THEN CHOOSE i \in 1..Len(sorted) : sorted[i].id = levelId
    ELSE 0

\* the level swapped with is always the first of the sorted list
swapIndex_AlwaysFirst(direction, currentIndex) == 1

\* const swapIndex = direction === 'up' ? currentIndex - 1 : currentIndex + 1
swapIndex(direction, currentIndex) ==
    IF direction = "up" THEN currentIndex - 1 ELSE currentIndex + 1

\* POST /levels/reorder
ReorderLevel(levelId, direction) ==
    /\ nops < MaxLevelOps
    /\ LET sortedLevels == SortedLevels(StoredLevels)
           currentIndex == IndexOfLevel(sortedLevels, levelId)
       IN IF currentIndex = 0
          THEN /\ last' = [Outcome("reorderLevel", 404) EXCEPT !.levelId = levelId,
                                                            !.direction = direction]
               /\ UNCHANGED levels
          ELSE IF \/ (direction = "up" /\ currentIndex = 1)
                  \/ (direction = "down" /\ currentIndex = Len(sortedLevels))
          THEN /\ last' = [Outcome("reorderLevel", 400) EXCEPT !.levelId = levelId,
                                                            !.direction = direction]
               /\ UNCHANGED levels
          ELSE LET cur == sortedLevels[currentIndex]
                   swp == sortedLevels[swapIndex(direction, currentIndex)]
               IN /\ levels' = [levels EXCEPT ![cur.id] = [cur EXCEPT !.order = swp.order],
                                              ![swp.id] = [swp EXCEPT !.order = cur.order]]
                  /\ last' = [Outcome("reorderLevel", 200) EXCEPT !.levelId = levelId,
                                                            !.direction = direction]
    /\ sent' = <<>>
    /\ nops' = nops + 1
    /\ UNCHANGED events
    /\ LevelFrame

\* ------------------------------------------------------------- POST /events
\* allUsers.filter(u => u.role === 'staff' && u.status === 'active'), as ids
ActiveStaffIds ==
    SelectSeq([i \in 1..NumStaff |-> i],
              LAMBDA i : users[i] # NoUser /\ users[i].role = "staff"
                                           /\ users[i].status = "active")

\* the eligibleStaff filter of POST /events, as ids
EligibleStaff(requiredLevel) ==
    LET sortedLevels == SortedLevels(StoredLevels)
        eventLevel == FindLevel(sortedLevels, requiredLevel)
    IN IF eventLevel # NoLevel /\ Len(ActiveStaffIds) > 0
       THEN SelectSeq(ActiveStaffIds,
                      LAMBDA i : ServerCanAccess(users[i].level, requiredLevel, StoredLevels))
       ELSE <<>>

HasPhone(staffId) == users[staffId] # NoUser /\ users[staffId].phone

WhatsAppAttempts(kind, ids) ==
    IF channels.whatsapp THEN Attempts(kind, SelectSeq(ids, HasPhone), "whatsapp")
    ELSE {<<>>}

CreateEvent(status, requiredLevel, points) ==
    /\ nops < MaxLevelOps
    /\ \E e \in EventIds : events[e] = NoEvent
    /\ LET eventId == CHOOSE e \in EventIds : events[e] = NoEvent
           event == NewEvent(IF status = Absent THEN "draft" ELSE status,
                             requiredLevel, points)
           eligibleStaff == EligibleStaff(requiredLevel)
       IN /\ events' = [events EXCEPT ![eventId] = event]
          /\ IF event.status = "open"
             THEN /\ last' = [Outcome("createEvent", 200) EXCEPT !.eventId = eventId,
                                                              !.recipients = eligibleStaff]
                  /\ \E w \in WhatsAppAttempts("new", eligibleStaff),
                        g \in TelegramAttempts("new", eligibleStaff) : sent' = w \o g
             ELSE /\ last' = [Outcome("createEvent", 200) EXCEPT !.eventId = eventId]
                  /\ sent' = <<>>
    /\ nops' = nops + 1
    /\ UNCHANGED levels
    /\ LevelFrame


\* ------------------------------------------- POST /participation/confirm(-all)
\* Each handler runs from one await to the next as one step; requests interleave
\* at the awaits.
InFlight == {r \in ReqIds : reqs[r].pc # "idle"}

\* kv.set(`adjustment:${id}`, adjustment): one record per key
PutAdjustment(adjs, adj) == {a \in adjs : a.id # adj.id} \cup {adj}

Adjustment(t, suffix, staffId, points, eventId) ==
    [id |-> <<t, suffix>>, staffId |-> staffId, points |-> points, eventId |-> eventId]

ConfirmFrame == UNCHANGED <<levels, channels, session, notice>>

\* the values a read of Date.now() can give: the clock stands or has moved on
ClockReads == {t \in {now, now + 1} : t <= MaxClock}

StartConfirmOne(r, eventId, staffId) ==
    /\ nops < MaxRequests
    /\ reqs[r].pc = "idle"
    /\ reqs' = [reqs EXCEPT ![r] = [Idle EXCEPT !.pc = "getEvent", !.op = "confirmOne",
                                                !.eventId = eventId, !.staffId = staffId]]
    /\ overlapped' = (overlapped \/ InFlight # {})
    /\ nops' = nops + 1
    /\ UNCHANGED <<users, events, adjustments, last, sent, credited>>
    /\ UNCHANGED now
    /\ ConfirmFrame

StartConfirmAll(r, eventId) ==
    /\ nops < MaxRequests
    /\ reqs[r].pc = "idle"
    /\ reqs' = [reqs EXCEPT ![r] = [Idle EXCEPT !.pc = "getEvent", !.op = "confirmAll",
                                                !.eventId = eventId]]
    /\ overlapped' = (overlapped \/ InFlight # {})
    /\ nops' = nops + 1
    /\ UNCHANGED <<users, events, adjustments, last, sent, credited>>
    /\ UNCHANGED now
    /\ ConfirmFrame

\* the request ends: its response, and the send attempts it made
Respond(r, outcome, attempts) ==
    /\ reqs' = [reqs EXCEPT ![r] = Idle]
    /\ last' = [outcome EXCEPT !.eventId = reqs[r].eventId, !.staffId = reqs[r].staffId]
    /\ sent' = attempts

\* const event = await kv.get(`event:${eventId}`), then the synchronous code up to
\* the next await
ConfirmGetEvent(r) ==
    /\ reqs[r].pc = "getEvent"
    /\ LET event == events[reqs[r].eventId]
           staffToConfirm == SelectSeq(event.confirmedStaff,
                                 LAMBDA id : ~Includes(event.pointsAwarded, id))
       IN IF event = NoEvent
          THEN Respond(r, Outcome(reqs[r].op, 404), <<>>)
          ELSE IF reqs[r].op = "confirmOne"
          THEN /\ reqs' = [reqs EXCEPT ![r].pc = "getStaff", ![r].event = event]
               /\ UNCHANGED <<last, sent>>
          ELSE IF Len(staffToConfirm) = 0
          THEN Respond(r, [Outcome("confirmAll", 400) EXCEPT !.before = event], <<>>)
          ELSE /\ reqs' = [reqs EXCEPT ![r].pc = "getStaff", ![r].event = event,
                                       ![r].staffToConfirm = staffToConfirm,
                                       ![r].todo = staffToConfirm,
                                       ![r].staffId = staffToConfirm[1]]
               /\ UNCHANGED <<last, sent>>
    /\ UNCHANGED <<users, events, adjustments, credited, overlapped, nops>>
    /\ UNCHANGED now
    /\ ConfirmFrame

\* confirm-all: the loop moves to the next staff id, or leaves the loop
NextInLoop(rq) ==
    IF Len(rq.todo) > 1
    THEN [rq EXCEPT !.pc = "getStaff", !.todo = Tail(rq.todo), !.staffId = rq.todo[2]]
    ELSE [rq EXCEPT !.pc = "setEvent", !.todo = <<>>]

\* the checks without the pointsAwarded guard
ConfirmOneCheck_NoAwardedGuard(event, staffId) ==
    IF ~Includes(event.confirmedStaff, staffId) THEN "not selected"
    ELSE "ok"

\* the checks without the confirmedStaff guard
ConfirmOneCheck_NoSelectedGuard(event, staffId) ==
    IF Includes(event.pointsAwarded, staffId) THEN "already awarded"
    ELSE "ok"

\* the two checks of POST /participation/confirm, in the order of the code
ConfirmOneCheck(event, staffId) ==
    IF Includes(event.pointsAwarded, staffId) THEN "already awarded"
    ELSE IF ~Includes(event.confirmedStaff, staffId) THEN "not selected"
    ELSE "ok"

\* const staff = await kv.get(`user:${staffId}`), then the checks
ConfirmGetStaff(r) ==
    /\ reqs[r].pc = "getStaff"
    /\ LET rq == reqs[r]
           staff == users[rq.staffId]
       IN IF rq.op = "confirmOne"
          THEN IF staff = NoUser
               THEN Respond(r, [Outcome("confirmOne", 404) EXCEPT !.before = rq.event], <<>>)
               ELSE IF ConfirmOneCheck(rq.event, rq.staffId) # "ok"
               THEN Respond(r, [Outcome("confirmOne", 400) EXCEPT !.before = rq.event], <<>>)
               ELSE /\ reqs' = [reqs EXCEPT ![r].pc = "calcLevel", ![r].staff = staff,
                                   ![r].newPoints = staff.points + rq.event.points]
                    /\ UNCHANGED <<last, sent>>
          ELSE IF staff = NoUser
               THEN /\ reqs' = [reqs EXCEPT ![r] = NextInLoop(rq)]
                    /\ UNCHANGED <<last, sent>>
               ELSE /\ reqs' = [reqs EXCEPT ![r].pc = "calcLevel", ![r].staff = staff,
                                   ![r].newPoints = staff.points + rq.event.points]
                    /\ UNCHANGED <<last, sent>>
    /\ UNCHANGED <<users, events, adjustments, credited, overlapped, nops>>
    /\ UNCHANGED now
    /\ ConfirmFrame

\* const newLevel = await calculateLevel(newPoints): reads the level table
ConfirmCalcLevel(r) ==
    /\ reqs[r].pc = "calcLevel"
    /\ reqs' = [reqs EXCEPT ![r].pc = "setStaff",
                            ![r].newLevel = calculateLevel(reqs[r].newPoints, StoredLevels)]
    /\ UNCHANGED <<users, events, adjustments, last, sent, credited, overlapped, nops>>
    /\ UNCHANGED now
    /\ ConfirmFrame

\* await kv.set(`user:${staffId}`, updatedStaff)
ConfirmSetStaff(r) ==
    /\ reqs[r].pc = "setStaff"
    /\ LET rq == reqs[r]
           leveledUp == LeveledUp(rq.staff.level, rq.newLevel)
       IN /\ users' = [users EXCEPT ![rq.staffId] =
                          [rq.staff EXCEPT !.points = rq.newPoints, !.level = rq.newLevel]]
          /\ credited' = [credited EXCEPT ![rq.staffId] = @ + 1]
          /\ reqs' = [reqs EXCEPT ![r].pc = IF rq.op = "confirmOne" THEN "setEvent"
                                            ELSE "setAdjustment",
                                  ![r].levelUps = IF leveledUp /\ rq.op = "confirmAll"
                                                  THEN @ \cup {rq.staffId} ELSE @]
    /\ UNCHANGED <<events, adjustments, last, sent, overlapped, nops>>
    /\ UNCHANGED now
    /\ ConfirmFrame

\* await kv.set(`event:${eventId}`, updatedEvent): the event as this request read
\* it, with pointsAwarded extended
ConfirmSetEvent(r) ==
    /\ reqs[r].pc = "setEvent"
    /\ LET rq == reqs[r]
           updatedEvent ==
               [rq.event EXCEPT !.pointsAwarded =
                   IF rq.op = "confirmOne" THEN Append(@, rq.staffId)
                   ELSE @ \o rq.staffToConfirm]
       IN /\ events' = [events EXCEPT ![rq.eventId] = updatedEvent]
          /\ IF rq.op = "confirmOne"
             THEN /\ reqs' = [reqs EXCEPT ![r].pc = "setAdjustment", ![r].event = updatedEvent]
                  /\ UNCHANGED <<last, sent>>
             ELSE Respond(r, [Outcome("confirmAll", 200) EXCEPT
                                  !.before = rq.event, !.recipients = rq.staffToConfirm,
                                  !.levelUps = rq.levelUps], <<>>)
    /\ UNCHANGED <<users, adjustments, credited, overlapped, nops>>
    /\ UNCHANGED now
    /\ ConfirmFrame

\* await kv.set(`adjustment:${adjustmentId}`, adjustment); the id is Date.now(),
\* with the staff id appended in confirm-all
ConfirmSetAdjustment(r) ==
    /\ reqs[r].pc = "setAdjustment"
    /\ \E t \in ClockReads :
       LET rq == reqs[r]
           adjustment == Adjustment(t, IF rq.op = "confirmOne" THEN 0 ELSE rq.staffId,
                                    rq.staffId, rq.event.points, rq.eventId)
       IN /\ now' = t
          /\ adjustments' = PutAdjustment(adjustments, adjustment)
          /\ reqs' = [reqs EXCEPT ![r] = IF rq.op = "confirmOne"
                                         THEN [rq EXCEPT !.pc = "sendEmail"]
                                         ELSE NextInLoop(rq)]
    /\ UNCHANGED <<users, events, last, sent, credited, overlapped, nops>>
    /\ ConfirmFrame

\* sendEmail(staff.email, ...) and the response of POST /participation/confirm
ConfirmSendEmail(r) ==
    /\ reqs[r].pc = "sendEmail"
    /\ LET rq == reqs[r]
       IN \E ok \in (IF channels.email THEN BOOLEAN ELSE {FALSE}) :
             Respond(r, [Outcome("confirmOne", 200) EXCEPT
                            !.leveledUp = LeveledUp(rq.staff.level, rq.newLevel)],
                     <<Attempt("awarded", rq.staffId, "email", ok)>>)
    /\ UNCHANGED <<users, events, adjustments, credited, overlapped, nops>>
    /\ UNCHANGED now
    /\ ConfirmFrame

\* =========================================================================
\* Awarding points: confirm and confirm-all requests against a closed event
\* =========================================================================
\* every duplicate-free list over a set of ids, in ascending order
Lists(S) == {SetToSeq(T) : T \in SUBSET S}

InitAward ==
    /\ levels = SeedLevels
    /\ users = [i \in Staff |-> IF i < NumStaff THEN NewStaff(0, "L1", TRUE, FALSE)
                                 ELSE NoUser]
    /\ \E confirmed \in Lists(Staff) :
          events = [e \in EventIds |->
                       IF e = "e1"
                       THEN [NewEvent("closed", "L1", 2) EXCEPT
                                !.signedUpStaff = SetToSeq({i \in Staff : users[i] # NoUser}),
                                !.signUpTimestamps = {i \in Staff : users[i] # NoUser},
                                !.confirmedStaff = confirmed,
                                !.hasBeenClosedBefore = TRUE]
                       ELSE NoEvent]
    /\ adjustments = {}
    /\ channels = [telegram |-> FALSE, whatsapp |-> FALSE, email |-> TRUE]
    /\ now = 0
    /\ reqs = [r \in ReqIds |-> Idle]
    /\ last = Outcome("none", 0)
    /\ sent = <<>>
    /\ credited = [i \in Staff |-> 0]
    /\ overlapped = FALSE
    /\ nops = 0
    /\ session = Admin
    /\ notice = NoNotices

\* a new request takes the first free slot
FirstIdle == CHOOSE r \in ReqIds : reqs[r].pc = "idle" /\ (r = "r2" => reqs["r1"].pc # "idle")

NextAward ==
    \/ \E r \in ReqIds, e \in EventIds, s \in Staff :
          (InFlight # ReqIds /\ r = FirstIdle) /\ StartConfirmOne(r, e, s)
    \/ \E r \in ReqIds, e \in EventIds :
          (InFlight # ReqIds /\ r = FirstIdle) /\ StartConfirmAll(r, e)
    \/ \E r \in ReqIds : ConfirmGetEvent(r)
    \/ \E r \in ReqIds : ConfirmGetStaff(r)
    \/ \E r \in ReqIds : ConfirmCalcLevel(r)
    \/ \E r \in ReqIds : ConfirmSetStaff(r)
    \/ \E r \in ReqIds : ConfirmSetEvent(r)
    \/ \E r \in ReqIds : ConfirmSetAdjustment(r)
    \/ \E r \in ReqIds : ConfirmSendEmail(r)

SpecAward == InitAward /\ [][NextAward]_vars

\* ---- claim helpers
\* the staff member, who started with no points, holds at most the event's points,
\* and the id is in pointsAwarded at most once
AwardedAtMostOnce(e, s) ==
    /\ Count(events[e].pointsAwarded, s) <= 1
    /\ users[s] # NoUser => users[s].points <= events[e].points

C2_ConcurrentAtMostOnce ==
    \A s \in Staff : AwardedAtMostOnce("e1", s)

\* a confirm request whose staff id is not selected, or is already awarded,
\* according to the event it read
FailsPrecondition(rq) ==
    \/ rq.staffId \notin Range(rq.event.confirmedStaff)
    \/ rq.staffId \in Range(rq.event.pointsAwarded)

\* a step of request r that ends its precondition stage
ChecksDone(r) ==
    /\ reqs[r].op = "confirmOne"
    /\ reqs[r].pc = "getStaff"
    /\ reqs'[r].pc # "getStaff"

NoConfirmOnePastFailedCheck ==
    \A r \in ReqIds :
        (reqs[r].op = "confirmOne" /\ reqs[r].pc \in {"calcLevel", "setStaff"})
            => ~FailsPrecondition(reqs[r])

\* C3 as stated: a confirm for a staff id that is not in confirmedStaff, or is
\* already in pointsAwarded, ends with the precondition error (400) and writes
\* nothing.
C3_RejectedWithPreconditionError ==
    /\ []NoConfirmOnePastFailedCheck
    /\ [][\A r \in ReqIds :
            (ChecksDone(r) /\ FailsPrecondition(reqs[r])) =>
               /\ reqs'[r].pc = "idle"
               /\ last'.op = "confirmOne"
               /\ last'.code = 400
               /\ UNCHANGED <<events, users, adjustments>>]_vars

\* C3 amended: such a confirm never gets past its checks; it ends with the
\* precondition error (400) when the staff id resolves to a stored user and with
\* not-found (404) when it does not, and no step of it writes the event, a user or
\* an adjustment.
C3_RejectedUnchanged ==
    /\ []NoConfirmOnePastFailedCheck
    /\ [][\A r \in ReqIds :
            /\ (ChecksDone(r) /\ FailsPrecondition(reqs[r])) =>
                  /\ reqs'[r].pc = "idle"
                  /\ last'.op = "confirmOne"
                  /\ last'.code = IF users[reqs[r].staffId] = NoUser THEN 404 ELSE 400
                  /\ UNCHANGED <<events, users, adjustments>>
            /\ (reqs[r].op = "confirmOne" /\ reqs[r].pc = "getEvent" /\ reqs'[r] # reqs[r])
                  => UNCHANGED <<events, users, adjustments>>]_vars

\* C3 witness: a confirm for an existing staff member who was not selected was
\* answered 400
C3_Witness ==
    /\ last.op = "confirmOne"
    /\ last.code = 400
    /\ last.staffId \in Staff
    /\ users[last.staffId] # NoUser
    /\ last.before # NoEvent
    /\ last.staffId \notin Range(last.before.confirmedStaff)

\* =========================================================================
\* Level table and eligibility: the level routes and POST /events
\* =========================================================================
InitLevels ==
    /\ levels = SeedLevels
    /\ users = [i \in Staff |->
                   NewStaff(0, IF i = 1 THEN "L1" ELSE IF i = 2 THEN "L2" ELSE NoName,
                            i # 2, FALSE)]
    /\ \E k \in {"L1", "L2"} :
          events = [e \in EventIds |->
                       IF e = "e1" THEN NewEvent("open", k, 1) ELSE NoEvent]
    /\ adjustments = {}
    /\ channels \in [telegram : BOOLEAN, whatsapp : {FALSE}, email : {FALSE}]
    /\ now = 0
    /\ reqs = [r \in ReqIds |-> Idle]
    /\ last = Outcome("none", 0)
    /\ sent = <<>>
    /\ credited = [i \in Staff |-> 0]
    /\ overlapped = FALSE
    /\ nops = 0
    /\ session = Admin
    /\ notice = NoNotices

NextLevels ==
    \/ \E name \in LevelNames, minPoints \in MinPointValues : AddLevel(name, minPoints)
    \/ \E levelId \in LevelIds, name \in LevelNames, minPoints \in MinPointValues :
          UpdateLevel(levelId, name, minPoints)
    \/ \E levelId \in LevelIds : DeleteLevel(levelId)
    \/ \E levelId \in LevelIds, direction \in {"up", "down"} : ReorderLevel(levelId, direction)
    \/ \E status \in {Absent, "draft", "open"}, k \in LevelNames :
          CreateEvent(status, k, 1)

SpecLevels == InitLevels /\ [][NextLevels]_vars

\* ---- claim helpers: the level table read as a set of records
LevelSet == {levels[i] : i \in LevelIds} \ {NoLevel}
NamesInTable == {l.name : l \in LevelSet}
\* the order a level name resolves to: the first match in order-sorted position
RankOf(name) ==
    CHOOSE o \in {l.order : l \in {x \in LevelSet : x.name = name}} :
        \A l \in LevelSet : l.name = name => o <= l.order
AnyName == LevelNames \cup {NoName}
ExistingEvents == {e \in EventIds : events[e] # NoEvent}


\* C7: the eligibility predicate is monotonic in staff rank: when a level name a
\* gives access to an event requiring k, every level name b that resolves to a
\* greater order gives access too, in the server's new-event filter, in
\* EventList's canAccessEvent and in StaffDashboard's eligibleEvents; and the
\* eligibleStaff list computed by POST /events is upward closed in rank.
C7_EligibilityMonotonic ==
    /\ \A a \in NamesInTable, b \in NamesInTable, k \in AnyName :
          RankOf(b) > RankOf(a) =>
             /\ ServerCanAccess(a, k, StoredLevels) => ServerCanAccess(b, k, StoredLevels)
             /\ canAccessEvent(a, k, StoredLevels) => canAccessEvent(b, k, StoredLevels)
             /\ \A e \in ExistingEvents :
                   eligibleEvents(a, events[e], StoredLevels)
                      => eligibleEvents(b, events[e], StoredLevels)
    /\ last.op = "createEvent" =>
          \A i \in Range(last.recipients), j \in Range(ActiveStaffIds) :
             ( /\ users[j].level \in NamesInTable
               /\ RankOf(users[j].level) > RankOf(users[i].level) )
             => j \in Range(last.recipients)

\* C7 witness: POST /events notified two staff members of different rank
C7_Witness ==
    /\ last.op = "createEvent"
    /\ nops > 1
    /\ \E i \in Range(last.recipients), j \in Range(last.recipients) :
          RankOf(users[j].level) > RankOf(users[i].level)

\* C8 (state part): no access without a staff level, with a staff level name that is
\* not in the table, or with a required level name that is not in the table; an
\* event whose required level is gone is accessible to nobody and notifies nobody.
C8_NoAccess ==
    /\ \A s \in AnyName, k \in AnyName :
          (s = NoName \/ s \notin NamesInTable \/ k \notin NamesInTable) =>
             /\ ~ServerCanAccess(s, k, StoredLevels)
             /\ ~canAccessEvent(s, k, StoredLevels)
             /\ \A e \in ExistingEvents :
                   events[e].requiredLevel = k => ~eligibleEvents(s, events[e], StoredLevels)
    /\ \A e \in ExistingEvents :
          events[e].requiredLevel \notin NamesInTable =>
             \A i \in Staff :
                /\ ~ServerCanAccess(users[i].level, events[e].requiredLevel, StoredLevels)
                /\ ~canAccessEvent(users[i].level, events[e].requiredLevel, StoredLevels)
                /\ ~eligibleEvents(users[i].level, events[e], StoredLevels)
    /\ last.op = "createEvent" =>
          /\ \A i \in Range(last.recipients) : users[i].level \in NamesInTable
          /\ events[last.eventId].requiredLevel \notin NamesInTable =>
                (last.recipients = <<>> /\ sent = <<>>)

\* C8: canAccess is fail-closed (C8_NoAccess in every state), and DELETE /levels/:id
\* deletes no event and changes none.
C8_FailClosed ==
    /\ []C8_NoAccess
    /\ [][(last'.op = "deleteLevel" /\ nops' = nops + 1) => events' = events]_vars

\* C8 witness: the level required by an existing event was deleted, its name is gone
\* from the table, and a staff member whose own level is still in the table is denied
C8_Witness ==
    /\ last.op = "deleteLevel"
    /\ events["e1"] # NoEvent
    /\ last.before.name = events["e1"].requiredLevel
    /\ events["e1"].requiredLevel \notin NamesInTable
    /\ \E i \in Staff : users[i].level \in NamesInTable

\* =========================================================================
\* Sign-ups, close, cancel, reinstate and edit of an event
\* =========================================================================
\* the history after the send attempts of a close of eventId
Noticed(n, eventId, attempts) ==
    LET selection(s) == {i \in 1..Len(attempts) :
                            /\ attempts[i].staffId = s
                            /\ attempts[i].kind \in {"selected", "not selected"}}
    IN IF ~n.on THEN n
       ELSE [n EXCEPT !.of[eventId] =
                [s \in Staff |->
                    IF selection(s) = {} THEN n.of[eventId][s]
                    ELSE attempts[CHOOSE i \in selection(s) :
                                     \A j \in selection(s) : j <= i].kind]]

\* everything POST /events/close leaves alone
CloseFrame == UNCHANGED <<levels, users, adjustments, channels, now, credited, overlapped, session>>

\* everything an event route leaves alone
EventFrame == UNCHANGED <<levels, users, adjustments, channels, now, credited, overlapped, session, notice>>

\* the response of a route that ran in one step
Answer(op, code, eventId) == [Outcome(op, code) EXCEPT !.eventId = eventId]

\* POST /signups, for the signed-in user
SignUp(eventId, staffId) ==
    /\ nops < MaxOps
    /\ users[staffId] # NoUser
    /\ LET event == events[eventId]
       IN IF event = NoEvent
          THEN /\ last' = [Answer("signUp", 404, eventId) EXCEPT !.staffId = staffId]
               /\ UNCHANGED events
          ELSE IF Includes(event.signedUpStaff, staffId) \/ event.date < now
          THEN /\ last' = [Answer("signUp", 400, eventId) EXCEPT !.staffId = staffId]
               /\ UNCHANGED events
          ELSE /\ events' = [events EXCEPT ![eventId] =
                               [event EXCEPT !.signedUpStaff = Append(@, staffId),
                                             !.signUpTimestamps = @ \cup {staffId}]]
               /\ last' = [Answer("signUp", 200, eventId) EXCEPT !.staffId = staffId,
                                                                !.before = event]
    /\ sent' = <<>>
    /\ nops' = nops + 1
    /\ UNCHANGED reqs
    /\ EventFrame

\* DELETE /signups/:eventId, for the signed-in user
CancelSignUp(eventId, staffId) ==
    /\ nops < MaxOps
    /\ users[staffId] # NoUser
    /\ LET event == events[eventId]
       IN IF event = NoEvent
          THEN /\ last' = [Answer("cancelSignUp", 404, eventId) EXCEPT !.staffId = staffId]
               /\ UNCHANGED events
          ELSE /\ events' = [events EXCEPT ![eventId] =
                               [event EXCEPT
                                  !.signedUpStaff = SelectSeq(@, LAMBDA id : id # staffId),
                                  !.signUpTimestamps = @ \ {staffId}]]
               /\ last' = [Answer("cancelSignUp", 200, eventId) EXCEPT !.staffId = staffId,
                                                                      !.before = event]
    /\ sent' = <<>>
    /\ nops' = nops + 1
    /\ UNCHANGED reqs
    /\ EventFrame

\* POST /signups/admin
AdminSignUp(eventId, staffIds) ==
    /\ nops < MaxOps
    /\ LET event == events[eventId]
           currentSignedUp == event.signedUpStaff
           newStaffIds == SelectSeq(staffIds, LAMBDA id : ~Includes(currentSignedUp, id))
       IN IF event = NoEvent
          THEN /\ last' = Answer("adminSignUp", 404, eventId)
               /\ UNCHANGED events
          ELSE IF event.status = "cancelled" \/ Len(newStaffIds) = 0
          THEN /\ last' = Answer("adminSignUp", 400, eventId)
               /\ UNCHANGED events
          ELSE /\ events' = [events EXCEPT ![eventId] =
                               [event EXCEPT
                                  !.signedUpStaff = currentSignedUp \o newStaffIds,
                                  !.signUpTimestamps = @ \cup Range(newStaffIds)]]
               /\ last' = [Answer("adminSignUp", 200, eventId) EXCEPT !.before = event,
                                                                     !.approved = staffIds]
    /\ sent' = <<>>
    /\ nops' = nops + 1
    /\ UNCHANGED reqs
    /\ EventFrame

\* ------------------------------------------------------- POST /events/close
\* every approved id counted as newly selected, on a re-close too
newlySelected_Always(approvedStaffIds, previouslyConfirmedStaff, wasClosedBefore) ==
    approvedStaffIds

newlySelected(approvedStaffIds, previouslyConfirmedStaff, wasClosedBefore) ==
    IF wasClosedBefore
    THEN SelectSeq(approvedStaffIds, LAMBDA id : ~Includes(previouslyConfirmedStaff, id))
    ELSE approvedStaffIds

\* the re-close difference taken on the first close too
newlyDeselected_DiffOnly(signedUpStaffIds, approvedStaffIds, previouslyConfirmedStaff, wasClosedBefore) ==
    SelectSeq(signedUpStaffIds,
              LAMBDA id : /\ Includes(previouslyConfirmedStaff, id)
                          /\ ~Includes(approvedStaffIds, id))

newlyDeselected(signedUpStaffIds, approvedStaffIds, previouslyConfirmedStaff, wasClosedBefore) ==
    IF wasClosedBefore
    THEN SelectSeq(signedUpStaffIds,
                   LAMBDA id : /\ Includes(previouslyConfirmedStaff, id)
                               /\ ~Includes(approvedStaffIds, id))
    ELSE SelectSeq(signedUpStaffIds, LAMBDA id : ~Includes(approvedStaffIds, id))

\* POST /events/close without the lookup of the event
CloseEvent_NoLookup(eventId, approvedStaffIds) ==
    /\ nops < MaxOps
    /\ LET event == events[eventId]
           wasClosedBefore == event.hasBeenClosedBefore
           selected == newlySelected(approvedStaffIds, event.confirmedStaff, wasClosedBefore)
           deselected == newlyDeselected(event.signedUpStaff, approvedStaffIds,
                                         event.confirmedStaff, wasClosedBefore)
       IN /\ events' = [events EXCEPT ![eventId] =
                          [event EXCEPT !.confirmedStaff = approvedStaffIds,
                                        !.status = "closed",
                                        !.hasBeenClosedBefore = TRUE]]
          /\ last' = [Answer("close", 200, eventId) EXCEPT
                         !.before = event, !.approved = approvedStaffIds,
                         !.selected = selected, !.deselected = deselected]
          /\ \E a \in TelegramAttempts("selected", selected),
                b \in TelegramAttempts("not selected", deselected) : sent' = a \o b
    /\ nops' = nops + 1
    /\ UNCHANGED reqs
    /\ notice' = Noticed(notice, eventId, sent')
    /\ CloseFrame

CloseEvent(eventId, approvedStaffIds) ==
    /\ nops < MaxOps
    /\ LET event == events[eventId]
           wasClosedBefore == event.hasBeenClosedBefore
           selected == newlySelected(approvedStaffIds, event.confirmedStaff, wasClosedBefore)
           deselected == newlyDeselected(event.signedUpStaff, approvedStaffIds,
                                         event.confirmedStaff, wasClosedBefore)
       IN IF event = NoEvent
          THEN /\ last' = Answer("close", 404, eventId)
               /\ sent' = <<>>
               /\ UNCHANGED events
          ELSE /\ events' = [events EXCEPT ![eventId] =
                               [event EXCEPT !.confirmedStaff = approvedStaffIds,
                                             !.status = "closed",
                                             !.hasBeenClosedBefore = TRUE]]
               /\ last' = [Answer("close", 200, eventId) EXCEPT
                              !.before = event, !.approved = approvedStaffIds,
                              !.selected = selected, !.deselected = deselected]
               /\ \E a \in TelegramAttempts("selected", selected),
                     b \in TelegramAttempts("not selected", deselected) : sent' = a \o b
    /\ nops' = nops + 1
    /\ UNCHANGED reqs
    /\ notice' = Noticed(notice, eventId, sent')
    /\ CloseFrame

\* ------------------------------------------------- POST /events/:id/cancel
\* kv.getByPrefix('user:'), as ids
AllUserIds == SelectSeq([i \in 1..NumStaff |-> i], LAMBDA i : users[i] # NoUser)

\* allUsers.filter(u => cancelledEvent.signedUpStaff.includes(u.id))
participatingStaff(event) ==
    SelectSeq(AllUserIds, LAMBDA i : Includes(event.signedUpStaff, i))

\* the email loop: one request to the mail service per staff member when
\* RESEND_API_KEY is set, none when it is not
EmailAttempts(kind, ids) ==
    IF channels.email THEN Attempts(kind, ids, "email") ELSE {<<>>}

\* the sign-ups kept after the notifications
CancelPurge_Skipped(event) == event

\* cancelledEvent.signedUpStaff = []
CancelPurge(event) == [event EXCEPT !.signedUpStaff = <<>>]

\* the handler up to the second await after the status write: the event is read and
\* written back as cancelled; without sign-ups the handler answers at once
StartCancel(r, eventId) ==
    /\ nops < MaxOps
    /\ reqs[r].pc = "idle"
    /\ LET existingEvent == events[eventId]
           cancelledEvent == [existingEvent EXCEPT !.status = "cancelled"]
       IN IF existingEvent = NoEvent
          THEN /\ last' = Answer("cancel", 404, eventId)
               /\ sent' = <<>>
               /\ UNCHANGED <<events, reqs>>
          ELSE /\ events' = [events EXCEPT ![eventId] = cancelledEvent]
               /\ IF Len(cancelledEvent.signedUpStaff) > 0
                  THEN /\ reqs' = [reqs EXCEPT ![r] =
                                     [Idle EXCEPT !.pc = "notify", !.op = "cancel",
                                                  !.eventId = eventId,
                                                  !.existingEvent = existingEvent,
                                                  !.event = cancelledEvent]]
                       /\ UNCHANGED <<last, sent>>
                  ELSE /\ last' = [Answer("cancel", 200, eventId) EXCEPT
                                      !.before = existingEvent]
                       /\ sent' = <<>>
                       /\ UNCHANGED reqs
    /\ nops' = nops + 1
    /\ EventFrame

\* the rest of the handler: the users are read, the email loop and the Telegram loop
\* run, then the handler's copy of the event is written back without its sign-ups
CancelNotify(r) ==
    /\ reqs[r].pc = "notify"
    /\ LET cancelledEvent == reqs[r].event
           staff == participatingStaff(cancelledEvent)
       IN /\ events' = [events EXCEPT ![reqs[r].eventId] = CancelPurge(cancelledEvent)]
          /\ \E m \in EmailAttempts("cancelled", staff),
                g \in TelegramAttempts("cancelled", staff) :
                Respond(r, [Outcome("cancel", 200) EXCEPT !.before = reqs[r].existingEvent,
                                                          !.recipients = staff],
                        m \o g)
    /\ UNCHANGED nops
    /\ EventFrame

\* POST /events/:id/reinstate
ReinstateEvent(eventId) ==
    /\ nops < MaxOps
    /\ LET existingEvent == events[eventId]
       IN IF existingEvent = NoEvent
          THEN /\ last' = Answer("reinstate", 404, eventId)
               /\ UNCHANGED events
          ELSE /\ events' = [events EXCEPT ![eventId] =
                               [existingEvent EXCEPT !.status = "upcoming"]]
               /\ last' = [Answer("reinstate", 200, eventId) EXCEPT
                              !.before = existingEvent]
    /\ sent' = <<>>
    /\ nops' = nops + 1
    /\ UNCHANGED reqs
    /\ EventFrame

\* -------------------------------------------------------- PUT /events/:id
RECURSIVE MergeFields(_, _)
\* { ...existingEvent, ...eventData } over the compared fields the payload carries:
\* every event the payload can make of the stored one
MergeFields(event, fields) ==
    IF fields = {} THEN {event}
    ELSE LET f == CHOOSE g \in fields : TRUE
         IN UNION {MergeFields([event EXCEPT ![f] = v], fields \ {f}) : v \in FieldValues(f)}

\* the payloads: a status or none, and at most MaxPayloadFields compared fields
PayloadFieldSets == {F \in SUBSET ComparedFields : Cardinality(F) <= MaxPayloadFields}

\* updatedEvent.status || 'open'
eventStatusOf(updatedEvent) ==
    IF updatedEvent.status = NoStatus THEN "open" ELSE updatedEvent.status

\* the nine comparisons existingEvent.f !== updatedEvent.f
DetectChanges(existingEvent, updatedEvent) ==
    {f \in ComparedFields : existingEvent[f] # updatedEvent[f]}

\* a closed event's update sent to the signed-up staff
staffToNotify_ClosedAsOpen(eventStatus, updatedEvent) ==
    IF eventStatus = "open" \/ eventStatus = "closed" THEN updatedEvent.signedUpStaff
    ELSE <<>>

staffToNotify(eventStatus, updatedEvent) ==
    IF eventStatus = "open" THEN updatedEvent.signedUpStaff
    ELSE IF eventStatus = "closed" THEN updatedEvent.confirmedStaff
    ELSE <<>>

\* the update notification sent whether or not a field changed
ShouldNotify_IgnoringChanges(eventStatus, changes) == eventStatus # "draft"

\* eventStatus !== 'draft' and changes.length > 0
ShouldNotify(eventStatus, changes) == eventStatus # "draft" /\ changes # {}

\* the list fields a payload can carry
ListFields == {"signedUpStaff", "confirmedStaff", "pointsAwarded"}

\* the list part of a payload: at most one list field, with any list of staff ids
ListPayloads ==
    UNION {[F -> Lists(Staff)] : F \in {G \in SUBSET ListFields : Cardinality(G) <= 1}}

\* { ...event, ...lists }
MergeLists(event, lists) ==
    [f \in DOMAIN event |-> IF f \in DOMAIN lists THEN lists[f] ELSE event[f]]

\* the handler, for a payload of a status, compared fields and list fields
EditEventWith(eventId, status, fields, lists) ==
    /\ nops < MaxOps
    /\ LET existingEvent == events[eventId]
       IN IF existingEvent = NoEvent
          THEN /\ last' = Answer("edit", 404, eventId)
               /\ sent' = <<>>
               /\ UNCHANGED events
          ELSE \E merged \in MergeFields(
                                IF status = Absent THEN existingEvent
                                ELSE [existingEvent EXCEPT !.status = status], fields) :
               LET updatedEvent == [MergeLists(merged, lists) EXCEPT
                       !.signedUpStaff = existingEvent.signedUpStaff,
                       !.confirmedStaff = existingEvent.confirmedStaff,
                       !.hasBeenClosedBefore = existingEvent.hasBeenClosedBefore]
                   eventStatus == eventStatusOf(updatedEvent)
                   selected == IF eventStatus = "draft" THEN <<>>
                               ELSE SelectSeq(updatedEvent.confirmedStaff,
                                       LAMBDA id : ~Includes(existingEvent.confirmedStaff, id))
                   deselected == IF eventStatus = "draft" THEN <<>>
                                 ELSE SelectSeq(existingEvent.confirmedStaff,
                                         LAMBDA id : ~Includes(updatedEvent.confirmedStaff, id))
                   changes == DetectChanges(existingEvent, updatedEvent)
                   recipients == IF ShouldNotify(eventStatus, changes)
                                 THEN staffToNotify(eventStatus, updatedEvent)
                                 ELSE <<>>
               IN /\ events' = [events EXCEPT ![eventId] = updatedEvent]
                  /\ last' = [Answer("edit", 200, eventId) EXCEPT
                                 !.before = existingEvent, !.status = status,
                                 !.selected = selected, !.deselected = deselected,
                                 !.changes = changes, !.recipients = recipients]
                  /\ \E a \in TelegramAttempts("selected", selected),
                        b \in TelegramAttempts("not selected", deselected),
                        u \in TelegramAttempts("updated", recipients) :
                        sent' = a \o b \o u
    /\ nops' = nops + 1
    /\ UNCHANGED reqs
    /\ EventFrame

\* PUT /events/:id with the payload of the edit form: a status and compared fields
EditEvent(eventId, status, fields) == EditEventWith(eventId, status, fields, <<>>)

\* =========================================================================
\* Closing: sign-ups and closes of one open event
\* =========================================================================
InitClose ==
    /\ levels = SeedLevels
    /\ \E chat \in BOOLEAN :
          users = [i \in Staff |-> NewStaff(0, "L1", i # 2 \/ chat, FALSE)]
    /\ events = [e \in EventIds |-> IF e = "e1" THEN NewEvent("open", "L1", 1) ELSE NoEvent]
    /\ adjustments = {}
    /\ channels \in [telegram : BOOLEAN, whatsapp : {FALSE}, email : {FALSE}]
    /\ now = 0
    /\ reqs = [r \in ReqIds |-> Idle]
    /\ last = Outcome("none", 0)
    /\ sent = <<>>
    /\ credited = [i \in Staff |-> 0]
    /\ overlapped = FALSE
    /\ nops = 0
    /\ session = Admin
    /\ notice = NoNotices

NextClose ==
    \/ \E e \in EventIds, s \in Staff : SignUp(e, s)
    \/ \E e \in EventIds, s \in Staff : CancelSignUp(e, s)
    \/ \E e \in EventIds, staffIds \in Lists(Staff) : AdminSignUp(e, staffIds)
    \/ \E e \in EventIds, approvedStaffIds \in Lists(Staff) : CloseEvent(e, approvedStaffIds)

SpecClose == InitClose /\ [][NextClose]_vars

\* ---- claim helpers
\* the send attempts of the last request that went to a staff member
AttemptsTo(s) == {i \in 1..Len(sent) : sent[i].staffId = s}
AttemptsOfKind(s, kind) == {i \in AttemptsTo(s) : sent[i].kind = kind}

\* a staff member on a recipient list gets one message of that kind when Telegram is
\* connected and the member has a chat id, and nobody else gets one
OneAttemptEach(recipients, kind) ==
    \A s \in Staff :
       Cardinality(AttemptsOfKind(s, kind)) =
          IF s \in recipients /\ channels.telegram /\ HasChat(s) THEN 1 ELSE 0

ClosedAgain == last.op = "close" /\ last.code = 200 /\ last.before.hasBeenClosedBefore
ClosedFirst == last.op = "close" /\ last.code = 200 /\ ~last.before.hasBeenClosedBefore

\* C4: on a re-close (hasBeenClosedBefore already true) the staff notified as
\* selected are exactly approved - previousConfirmed, the staff notified as not
\* selected are exactly (signedUp /\ previousConfirmed) - approved, each once, and a
\* staff member in both the previous and the new confirmedStaff gets nothing.
C4_ReCloseNotifiesDifference ==
    ClosedAgain =>
       LET approved == Range(last.approved)
           previousConfirmed == Range(last.before.confirmedStaff)
           signedUp == Range(last.before.signedUpStaff)
       IN /\ Range(last.selected) = approved \ previousConfirmed
          /\ Range(last.deselected) = (signedUp \cap previousConfirmed) \ approved
          /\ NoDup(last.selected) /\ NoDup(last.deselected)
          /\ OneAttemptEach(approved \ previousConfirmed, "selected")
          /\ OneAttemptEach((signedUp \cap previousConfirmed) \ approved, "not selected")
          /\ \A s \in approved \cap previousConfirmed : AttemptsTo(s) = {}

\* C4 witness: a re-close with Telegram connected in which one staff member stayed
\* selected, one with a chat id was newly selected and one with a chat id was
\* dropped, as in {A,B} then {A,C}
C4_Witness ==
    /\ ClosedAgain
    /\ channels.telegram
    /\ \E a, b, c \in Staff :
          /\ a \in Range(last.before.confirmedStaff) \cap Range(last.approved)
          /\ HasChat(a)
          /\ c \in Range(last.approved) \ Range(last.before.confirmedStaff)
          /\ AttemptsOfKind(c, "selected") # {}
          /\ b \in Range(last.before.confirmedStaff) \ Range(last.approved)
          /\ AttemptsOfKind(b, "not selected") # {}

InitCancel ==
    /\ levels = SeedLevels
    /\ users = [i \in Staff |-> IF i < NumStaff THEN NewStaff(0, "L1", i # 2, FALSE)
                                 ELSE NoUser]
    /\ events = [e \in EventIds |-> IF e = "e1" THEN NewEvent("open", "L1", 1) ELSE NoEvent]
    /\ adjustments = {}
    /\ channels \in [telegram : BOOLEAN, whatsapp : {FALSE}, email : BOOLEAN]
    /\ now = 0
    /\ reqs = [r \in ReqIds |-> Idle]
    /\ last = Outcome("none", 0)
    /\ sent = <<>>
    /\ credited = [i \in Staff |-> 0]
    /\ overlapped = FALSE
    /\ nops = 0
    /\ session = Admin
    /\ notice = NoNotices

NextCancel ==
    \/ \E e \in EventIds, s \in Staff : SignUp(e, s)
    \/ \E e \in EventIds, staffIds \in Lists(Staff) : AdminSignUp(e, staffIds)
    \/ \E r \in ReqIds, e \in EventIds :
          (InFlight # ReqIds /\ r = FirstIdle) /\ StartCancel(r, e)
    \/ \E r \in ReqIds : CancelNotify(r)
    \/ \E e \in EventIds : ReinstateEvent(e)

SpecCancel == InitCancel /\ [][NextCancel]_vars

\* ---- claim helpers
AttemptsOn(s, channel) == {i \in AttemptsTo(s) : sent[i].channel = channel}

\* the last request was a cancel, of an event with sign-ups, and it has returned
CancelReturned ==
    /\ last.op = "cancel"
    /\ last.code = 200
    /\ last.before.signedUpStaff # <<>>

CancelledAndPurged ==
    /\ events[last.eventId].status = "cancelled"
    /\ events[last.eventId].signedUpStaff = <<>>

InitEdit ==
    /\ levels = SeedLevels
    /\ users = [i \in Staff |-> NewStaff(0, "L1", i # 2, FALSE)]
    /\ events = [e \in EventIds |->
                    IF e = "e1" THEN NewEvent(NoStatus, "L1", 1) ELSE NoEvent]
    /\ adjustments = {}
    /\ channels \in [telegram : BOOLEAN, whatsapp : {FALSE}, email : {FALSE}]
    /\ now = 0
    /\ reqs = [r \in ReqIds |-> Idle]
    /\ last = Outcome("none", 0)
    /\ sent = <<>>
    /\ credited = [i \in Staff |-> 0]
    /\ overlapped = FALSE
    /\ nops = 0
    /\ session = Admin
    /\ notice = NoNotices

NextEdit ==
    \/ \E e \in EventIds, staffIds \in Lists(Staff) :
          nops < MaxEditOps /\ AdminSignUp(e, staffIds)
    \/ \E e \in EventIds, approvedStaffIds \in Lists(Staff) :
          nops < MaxEditOps /\ CloseEvent(e, approvedStaffIds)
    \/ \E e \in EventIds, status \in Statuses \cup {Absent}, fields \in PayloadFieldSets :
          nops < MaxEditOps /\ EditEvent(e, status, fields)

SpecEdit == InitEdit /\ [][NextEdit]_vars

\* ---- claim helpers
Edited == last.op = "edit" /\ last.code = 200
SavedEvent == events[last.eventId]
ComparedFieldChanged == \E f \in ComparedFields : last.before[f] # SavedEvent[f]

\* the 'event updated' recipients of the last edit are this list: each member that
\* Telegram can reach gets one message, and nobody else gets any
UpdateSentTo(list) ==
    /\ last.recipients = list
    /\ OneAttemptEach(Range(list), "updated")
    /\ \A i \in 1..Len(sent) : sent[i].kind = "updated"

\* C9 as stated: when an edit changes a compared field, the recipients are exactly
\* signedUpStaff if the saved status is open, exactly confirmedStaff if it is closed,
\* and nobody for any other status.
C9_RecipientsByStatus ==
    (Edited /\ ComparedFieldChanged) =>
       IF SavedEvent.status = "open" THEN UpdateSentTo(SavedEvent.signedUpStaff)
       ELSE IF SavedEvent.status = "closed" THEN UpdateSentTo(SavedEvent.confirmedStaff)
       ELSE UpdateSentTo(<<>>)

\* C9 amended: the recipients are exactly signedUpStaff if the saved status is open
\* or the saved event has no status, exactly confirmedStaff if it is closed, and
\* nobody for draft, cancelled and upcoming.
C9_RecipientsByStatusOrNone ==
    (Edited /\ ComparedFieldChanged) =>
       IF SavedEvent.status \in {"open", NoStatus}
       THEN UpdateSentTo(SavedEvent.signedUpStaff)
       ELSE IF SavedEvent.status = "closed" THEN UpdateSentTo(SavedEvent.confirmedStaff)
       ELSE UpdateSentTo(<<>>)

\* C9 witness: an edit changed a compared field of a closed event whose confirmed
\* staff differ from its signed-up staff, and a message went out
C9_Witness ==
    /\ Edited
    /\ ComparedFieldChanged
    /\ SavedEvent.status = "closed"
    /\ Range(SavedEvent.confirmedStaff) # Range(SavedEvent.signedUpStaff)
    /\ sent # <<>>

InitPublish ==
    /\ levels = SeedLevels
    /\ users = [i \in Staff |->
                   NewStaff(0, IF i = 1 THEN "L1" ELSE IF i = 2 THEN "L2" ELSE NoName,
                            i # 2, FALSE)]
    /\ events = [e \in EventIds |-> NoEvent]
    /\ adjustments = {}
    /\ channels \in [telegram : BOOLEAN, whatsapp : {FALSE}, email : BOOLEAN]
    /\ now = 0
    /\ reqs = [r \in ReqIds |-> Idle]
    /\ last = Outcome("none", 0)
    /\ sent = <<>>
    /\ credited = [i \in Staff |-> 0]
    /\ overlapped = FALSE
    /\ nops = 0
    /\ session = Admin
    /\ notice = NoNotices

NextPublish ==
    \/ \E status \in {Absent, "draft", "open"}, k \in LevelNames : CreateEvent(status, k, 1)
    \/ \E e \in EventIds, staffIds \in Lists(Staff) : AdminSignUp(e, staffIds)
    \/ \E e \in EventIds, status \in Statuses \cup {Absent}, fields \in PayloadFieldSets :
          EditEvent(e, status, fields)
    \/ \E e \in EventIds, approvedStaffIds \in Lists(Staff) : CloseEvent(e, approvedStaffIds)
    \/ \E r \in ReqIds, e \in EventIds :
          (InFlight # ReqIds /\ r = FirstIdle) /\ StartCancel(r, e)
    \/ \E r \in ReqIds : CancelNotify(r)

SpecPublish == InitPublish /\ [][NextPublish]_vars

\* ---- claim helpers
\* the last request was served for an event that was a draft when the request read it
ServedDraft ==
    /\ last.op \in {"adminSignUp", "edit", "close", "cancel"}
    /\ last.code = 200
    /\ last.before.status = "draft"

\* C11: nothing is sent about an event while it is a draft, and a request that takes
\* a draft anywhere but to open (cancel, close, an edit that keeps it a draft) sends
\* nothing, also when the draft has admin sign-ups.
C11_DraftSendsNothing ==
    /\ (last.op = "createEvent" /\ SavedEvent.status = "draft") => sent = <<>>
    /\ (ServedDraft /\ SavedEvent.status # "open") => sent = <<>>

\* the event of the last request has just been published
Published ==
    \/ last.op = "createEvent" /\ SavedEvent.status = "open"
    \/ Edited /\ last.before.status = "draft" /\ SavedEvent.status = "open"

\* an active staff member whose level is in the table at or above the required one
EligibleFor(s, e) ==
    /\ users[s] # NoUser
    /\ users[s].role = "staff" /\ users[s].status = "active"
    /\ users[s].level \in NamesInTable
    /\ events[e].requiredLevel \in NamesInTable
    /\ RankOf(users[s].level) >= RankOf(events[e].requiredLevel)

\* C12: when an event goes from draft to open, at creation or by an edit, a 'new
\* event' message is attempted for every eligible active staff member Telegram can
\* reach, and for nobody else.
C12_PublishNotifiesEligible ==
    Published =>
       \A s \in Staff :
          Cardinality({i \in AttemptsOfKind(s, "new") : sent[i].channel = "telegram"}) =
             IF EligibleFor(s, last.eventId) /\ channels.telegram /\ HasChat(s)
             THEN 1 ELSE 0

\* =========================================================================
\* Awards and re-closes: confirm requests and closes of one closed event
\* =========================================================================
NextCloseAward ==
    \/ NextAward
    \/ \E e \in EventIds, approvedStaffIds \in Lists(Staff) : CloseEvent(e, approvedStaffIds)

SpecCloseAward == InitAward /\ [][NextCloseAward]_vars

\* C13: pointsAwarded is a subset of confirmedStaff for every event in every
\* reachable state, also after an event with awards is closed again with a
\* different approved list.
C13_AwardedAreConfirmed ==
    \A e \in ExistingEvents :
       Range(events[e].pointsAwarded) \subseteq Range(events[e].confirmedStaff)

\* =========================================================================
\* Roster: sign-ups, withdrawals, closes and staff deletion
\* =========================================================================
\* DELETE /staff/:id
DeleteStaff(staffId) ==
    /\ nops < MaxOps
    /\ LET staff == users[staffId]
       IN IF staff = NoUser
          THEN /\ last' = [Outcome("deleteStaff", 404) EXCEPT !.staffId = staffId]
               /\ UNCHANGED <<users, events>>
          ELSE IF staff.role = "admin"
          THEN /\ last' = [Outcome("deleteStaff", 403) EXCEPT !.staffId = staffId]
               /\ UNCHANGED <<users, events>>
          ELSE /\ events' = [e \in EventIds |->
                               IF Includes(events[e].signedUpStaff, staffId)
                               THEN [events[e] EXCEPT !.signedUpStaff =
                                        SelectSeq(@, LAMBDA id : id # staffId)]
                               ELSE events[e]]
               /\ users' = [users EXCEPT ![staffId] = NoUser]
               /\ last' = [Outcome("deleteStaff", 200) EXCEPT !.staffId = staffId]
    /\ sent' = <<>>
    /\ nops' = nops + 1
    /\ UNCHANGED <<levels, adjustments, channels, now, reqs, credited, overlapped, session, notice>>

NextRoster ==
    \/ \E e \in EventIds, s \in Staff : SignUp(e, s)
    \/ \E e \in EventIds, s \in Staff : CancelSignUp(e, s)
    \/ \E e \in EventIds, staffIds \in Lists(Staff) : AdminSignUp(e, staffIds)
    \/ \E e \in EventIds, approvedStaffIds \in Lists(Staff) : CloseEvent(e, approvedStaffIds)
    \/ \E s \in Staff : DeleteStaff(s)

SpecRoster == InitClose /\ [][NextRoster]_vars

\* C14: for every event that is not cancelled, confirmedStaff is a subset of
\* signedUpStaff in every reachable state.
C14_ConfirmedAreSignedUp ==
    \A e \in ExistingEvents :
       events[e].status # "cancelled" =>
          Range(events[e].confirmedStaff) \subseteq Range(events[e].signedUpStaff)

\* =========================================================================
\* Point adjustment records
\* =========================================================================
\* C18: PointAdjustment records are append-only: a step that writes one adds exactly
\* one new record, and no record is ever overwritten or removed, also when two are
\* created in the same clock tick.
C18_AdjustmentsAppendOnly ==
    [][/\ adjustments \subseteq adjustments'
       /\ \A r \in ReqIds :
             (reqs[r].pc = "setAdjustment" /\ reqs'[r].pc # "setAdjustment")
                => Cardinality(adjustments') = Cardinality(adjustments) + 1]_vars

\* =========================================================================
\* Points and levels: POST /points/adjust, PUT /staff/:id and the level routes
\* =========================================================================
\* the payload values of POST /points/adjust
DeltaValues == {-3, -1, 2}

\* a total that follows the delta below zero
AdjustedPoints_Unclamped(current, delta) == current + delta

\* Math.max(0, staff.points + points)
AdjustedPoints(current, delta) ==
    IF current + delta > 0 THEN current + delta ELSE 0

\* POST /points/adjust
AdjustPoints(staffId, points) ==
    /\ LET staff == users[staffId]
           newPoints == AdjustedPoints(staff.points, points)
           newLevel == calculateLevel(newPoints, StoredLevels)
       IN IF staff = NoUser
          THEN /\ last' = [Outcome("adjust", 404) EXCEPT !.staffId = staffId]
               /\ sent' = <<>>
               /\ UNCHANGED <<users, adjustments, now>>
          ELSE /\ users' = [users EXCEPT ![staffId] =
                              [staff EXCEPT !.points = newPoints, !.level = newLevel]]
               /\ \E t \in ClockReads :
                     /\ now' = t
                     /\ adjustments' = PutAdjustment(adjustments,
                                          Adjustment(t, 0, staffId, points, "manual"))
               /\ last' = [Outcome("adjust", 200) EXCEPT
                              !.staffId = staffId, !.points = points,
                              !.oldPoints = staff.points,
                              !.leveledUp = LeveledUp(staff.level, newLevel)]
               /\ \E ok \in (IF channels.email THEN BOOLEAN ELSE {FALSE}) :
                     sent' = <<Attempt("adjusted", staffId, "email", ok)>>
    /\ nops' = nops + 1
    /\ UNCHANGED <<levels, events, channels, reqs, credited, overlapped, session, notice>>

\* PUT /staff/:id: the admin sets the level (and the contact fields) directly
UpdateStaff(staffId, level, chat, phone) ==
    /\ LET staff == users[staffId]
       IN IF staff = NoUser
          THEN /\ last' = [Outcome("updateStaff", 404) EXCEPT !.staffId = staffId]
               /\ UNCHANGED users
          ELSE /\ users' = [users EXCEPT ![staffId] =
                              [staff EXCEPT !.level = level, !.chat = chat,
                                            !.phone = phone]]
               /\ last' = [Outcome("updateStaff", 200) EXCEPT !.staffId = staffId]
    /\ sent' = <<>>
    /\ nops' = nops + 1
    /\ UNCHANGED <<levels, events, adjustments, channels, now, reqs, credited, overlapped, session, notice>>

InitPoints ==
    /\ levels = SeedLevels
    /\ users = [i \in Staff |-> NewStaff(0, "L1", TRUE, FALSE)]
    /\ events = [e \in EventIds |-> NoEvent]
    /\ adjustments = {}
    /\ channels \in [telegram : {FALSE}, whatsapp : {FALSE}, email : BOOLEAN]
    /\ now = 0
    /\ reqs = [r \in ReqIds |-> Idle]
    /\ last = Outcome("none", 0)
    /\ sent = <<>>
    /\ credited = [i \in Staff |-> 0]
    /\ overlapped = FALSE
    /\ nops = 0
    /\ session = Admin
    /\ notice = NoNotices

NextPoints ==
    \/ \E name \in LevelNames, minPoints \in MinPointValues : AddLevel(name, minPoints)
    \/ \E levelId \in LevelIds, name \in LevelNames, minPoints \in MinPointValues :
          UpdateLevel(levelId, name, minPoints)
    \/ \E levelId \in LevelIds : DeleteLevel(levelId)
    \/ \E levelId \in LevelIds, direction \in {"up", "down"} : ReorderLevel(levelId, direction)
    \/ \E s \in Staff, points \in DeltaValues :
          nops < MaxLevelOps /\ AdjustPoints(s, points)
    \/ \E s \in Staff, level \in AnyName :
          nops < MaxLevelOps /\ UpdateStaff(s, level, TRUE, FALSE)

SpecPoints == InitPoints /\ [][NextPoints]_vars

\* ---- claim helpers
\* the reference resolver, as the set of names it allows: the levels with the greatest
\* minPoints <= p; when none has minPoints <= p, the levels with the smallest order;
\* the 'no level' value when the table is empty. Two levels that tie are both allowed.
ResolverNamesOf(table, p) ==
    LET qualifying == {l \in table : l.minPoints <= p}
    IN IF table = {} THEN {NoName}
       ELSE IF qualifying # {}
       THEN {l.name : l \in {x \in qualifying :
                               \A y \in qualifying : y.minPoints <= x.minPoints}}
       ELSE {l.name : l \in {x \in table : \A y \in table : x.order <= y.order}}

ResolverNames(p) == ResolverNamesOf(LevelSet, p)

\* C15: for every level table and every total p >= 0, calculateLevel(p) is the
\* reference resolver's answer, and calculateLevel(0) is a zero-threshold level when
\* one exists; the level POST /points/adjust stores is that answer for the new total.
C15_CalculateLevelIsResolver ==
    /\ \A p \in 0..MaxPoints : calculateLevel(p, StoredLevels) \in ResolverNames(p)
    /\ (\E l \in LevelSet : l.minPoints = 0) =>
          \E l \in LevelSet : l.minPoints = 0 /\ l.name = calculateLevel(0, StoredLevels)
    /\ (last.op = "adjust" /\ last.code = 200) =>
          users[last.staffId].level \in ResolverNames(users[last.staffId].points)

\* C15 witness: an adjustment lifted a staff member over a threshold, in a table
\* with two different thresholds, and the stored level is the higher one
C15_Witness ==
    /\ last.op = "adjust"
    /\ last.code = 200
    /\ last.leveledUp
    /\ \E l, m \in LevelSet :
          /\ l.minPoints < m.minPoints
          /\ last.oldPoints < m.minPoints
          /\ users[last.staffId].points >= m.minPoints
          /\ users[last.staffId].level = m.name
          /\ m.name # l.name

\* C16: a change of the level table (add, edit, delete, reorder) leaves every staff
\* member whose level was the resolver's answer for their points with a level that
\* still is.
C16_LevelFollowsTable ==
    [][levels' # levels =>
          \A s \in Staff :
             (users[s] # NoUser /\ users[s].level \in ResolverNames(users[s].points))
                => users'[s].level \in ResolverNamesOf(LevelSet', users'[s].points)]_vars

\* =========================================================================
\* Adjustments and awards: POST /points/adjust beside the confirm requests
\* =========================================================================
NextAdjustAward ==
    \/ NextAward
    \/ \E s \in Staff, points \in DeltaValues :
          nops < MaxRequests /\ AdjustPoints(s, points)

SpecAdjustAward == InitAward /\ [][NextAdjustAward]_vars

C19_OrdersUnique ==
    \A l, m \in LevelSet : l.id # m.id => l.order # m.order

\* GET /levels: the table as one read gives it
GetLevels ==
    /\ nops < MaxLevelOps
    /\ last' = [Outcome("getLevels", 200) EXCEPT !.changes = LevelSet]
    /\ sent' = <<>>
    /\ nops' = nops + 1
    /\ UNCHANGED <<levels, events>>
    /\ LevelFrame

\* POST /levels/reorder up to its first write: the table is read, the two order
\* values are swapped in the handler's copies, and the moved level is written
StartReorder(r, levelId, direction) ==
    /\ nops < MaxLevelOps
    /\ reqs[r].pc = "idle"
    /\ LET sortedLevels == SortedLevels(StoredLevels)
           currentIndex == IndexOfLevel(sortedLevels, levelId)
       IN IF currentIndex = 0
          THEN /\ last' = Outcome("reorderLevel", 404)
               /\ sent' = <<>>
               /\ UNCHANGED <<levels, reqs>>
          ELSE IF \/ (direction = "up" /\ currentIndex = 1)
                  \/ (direction = "down" /\ currentIndex = Len(sortedLevels))
          THEN /\ last' = Outcome("reorderLevel", 400)
               /\ sent' = <<>>
               /\ UNCHANGED <<levels, reqs>>
          ELSE LET cur == sortedLevels[currentIndex]
                   swp == sortedLevels[swapIndex(direction, currentIndex)]
               IN /\ levels' = [levels EXCEPT ![cur.id] = [cur EXCEPT !.order = swp.order]]
                  /\ reqs' = [reqs EXCEPT ![r] =
                                [Idle EXCEPT !.pc = "setSwapped", !.op = "reorderLevel",
                                             !.level = [swp EXCEPT !.order = cur.order]]]
                  /\ UNCHANGED <<last, sent>>
    /\ nops' = nops + 1
    /\ UNCHANGED <<users, events, adjustments, channels, now, credited, overlapped, session, notice>>

\* the second write of POST /levels/reorder, and its response
FinishReorder(r) ==
    /\ reqs[r].pc = "setSwapped"
    /\ levels' = [levels EXCEPT ![reqs[r].level.id] = reqs[r].level]
    /\ reqs' = [reqs EXCEPT ![r] = Idle]
    /\ last' = Outcome("reorderLevel", 200)
    /\ sent' = <<>>
    /\ UNCHANGED <<users, events, adjustments, channels, now, credited, overlapped, nops, session, notice>>

\* a table of two or of three levels with different order values
InitReorder ==
    /\ \E third \in {NoLevel, [id |-> 3, name |-> "L3", minPoints |-> 2, order |-> 2]} :
          levels = [SeedLevels EXCEPT ![3] = third]
    /\ users = [i \in Staff |->
                   NewStaff(0, IF i = 1 THEN "L1" ELSE IF i = 2 THEN "L2" ELSE NoName,
                            i # 2, FALSE)]
    /\ events = [e \in EventIds |-> NoEvent]
    /\ adjustments = {}
    /\ channels \in [telegram : BOOLEAN, whatsapp : {FALSE}, email : {FALSE}]
    /\ now = 0
    /\ reqs = [r \in ReqIds |-> Idle]
    /\ last = Outcome("none", 0)
    /\ sent = <<>>
    /\ credited = [i \in Staff |-> 0]
    /\ overlapped = FALSE
    /\ nops = 0
    /\ session = Admin
    /\ notice = NoNotices

NextReorder ==
    \/ \E r \in ReqIds, levelId \in LevelIds, direction \in {"up", "down"} :
          (InFlight # ReqIds /\ r = FirstIdle) /\ StartReorder(r, levelId, direction)
    \/ \E r \in ReqIds : FinishReorder(r)
    \/ GetLevels
    \/ \E k \in LevelNames : CreateEvent("open", k, 1)

SpecReorder == InitReorder /\ [][NextReorder]_vars

\* C20: a request that reads the level table while a reorder is in progress never
\* sees two levels with the same order value.
C20_ReadersSeeUniqueOrders ==
    last.op = "getLevels" =>
       \A l, m \in last.changes : l.id # m.id => l.order # m.order

\* =========================================================================
\* Signing up: self sign-up and admin sign-up against events of every status
\* =========================================================================
InitSignUp ==
    /\ levels = SeedLevels
    /\ users = [i \in Staff |->
                   NewStaff(0, IF i = 1 THEN "L1" ELSE IF i = 2 THEN "L2" ELSE NoName,
                            FALSE, FALSE)]
    /\ \E status \in {NoStatus, "draft", "open"}, k \in {"L1", "L2"} :
          events = [e \in EventIds |-> IF e = "e1" THEN NewEvent(status, k, 1) ELSE NoEvent]
    /\ adjustments = {}
    /\ channels = [telegram |-> FALSE, whatsapp |-> FALSE, email |-> FALSE]
    /\ now \in {0, MaxClock}
    /\ reqs = [r \in ReqIds |-> Idle]
    /\ last = Outcome("none", 0)
    /\ sent = <<>>
    /\ credited = [i \in Staff |-> 0]
    /\ overlapped = FALSE
    /\ nops = 0
    /\ session = Admin
    /\ notice = NoNotices

NextSignUp ==
    \/ \E e \in EventIds, s \in Staff : SignUp(e, s)
    \/ \E e \in EventIds, s \in Staff : CancelSignUp(e, s)
    \/ \E e \in EventIds, staffIds \in Lists(Staff) : AdminSignUp(e, staffIds)
    \/ \E e \in EventIds, approvedStaffIds \in Lists(Staff) : CloseEvent(e, approvedStaffIds)
    \/ \E r \in ReqIds, e \in EventIds :
          (InFlight # ReqIds /\ r = FirstIdle) /\ StartCancel(r, e)
    \/ \E r \in ReqIds : CancelNotify(r)

SpecSignUp == InitSignUp /\ [][NextSignUp]_vars

\* ---- claim helpers
\* this step is a sign-up request, self or admin, for an event that exists
SignUpRequest(e) ==
    /\ nops' = nops + 1
    /\ last'.op \in {"signUp", "adminSignUp"}
    /\ last'.eventId = e
    /\ events[e] # NoEvent

\* this step is a self sign-up that was accepted
SelfSignUpAccepted(e, s) ==
    /\ SignUpRequest(e)
    /\ last'.op = "signUp"
    /\ last'.staffId = s
    /\ last'.code = 200

\* C23: a sign-up, self or admin, for an event that is in the past or cancelled, or
\* a self sign-up of a staff member who is already signed up, is rejected and leaves
\* the event unchanged.
C23_SignUpPreconditions ==
    [][\A e \in EventIds :
          (/\ SignUpRequest(e)
           /\ \/ events[e].status = "cancelled"
              \/ events[e].date < now
              \/ (last'.op = "signUp" /\ Includes(events[e].signedUpStaff, last'.staffId)))
             => (last'.code = 400 /\ events' = events)]_vars

\* C24: a self sign-up is accepted only if the staff member's level gives access to
\* the event's required level when the request is made.
C24_SelfSignUpNeedsLevel ==
    [][\A e \in EventIds, s \in Staff :
          SelfSignUpAccepted(e, s)
             => ServerCanAccess(users[s].level, events[e].requiredLevel, StoredLevels)]_vars

\* C25: a self sign-up is never accepted for an event whose status is draft or
\* closed.
C25_SelfSignUpOnlyWhileOpen ==
    [][\A e \in EventIds, s \in Staff :
          SelfSignUpAccepted(e, s) => events[e].status \notin {"draft", "closed"}]_vars

\* =========================================================================
\* Staff deletion, await by await, against sign-ups
\* =========================================================================
\* DELETE /staff/:id up to the read of the events: the staff record is looked up,
\* kv.getByPrefix('event:') gives the handler its copies of the events
StartDeleteStaff(r, staffId) ==
    /\ nops < MaxOps
    /\ reqs[r].pc = "idle"
    /\ LET staff == users[staffId]
       IN IF staff = NoUser
          THEN /\ last' = [Outcome("deleteStaff", 404) EXCEPT !.staffId = staffId]
               /\ sent' = <<>>
               /\ UNCHANGED reqs
          ELSE IF staff.role = "admin"
          THEN /\ last' = [Outcome("deleteStaff", 403) EXCEPT !.staffId = staffId]
               /\ sent' = <<>>
               /\ UNCHANGED reqs
          ELSE /\ reqs' = [reqs EXCEPT ![r] =
                             [Idle EXCEPT !.pc = "cascade", !.op = "deleteStaff",
                                          !.staffId = staffId,
                                          !.allEvents = events,
                                          !.eventsLeft =
                                              {e \in EventIds :
                                                  Includes(events[e].signedUpStaff, staffId)}]]
               /\ UNCHANGED <<last, sent>>
    /\ nops' = nops + 1
    /\ UNCHANGED events
    /\ EventFrame

\* one turn of the loop over the events read: the handler's copy of an event that
\* held the id is written back without it
DeleteStaffSetEvent(r) ==
    /\ reqs[r].pc = "cascade"
    /\ \E e \in reqs[r].eventsLeft :
          /\ events' = [events EXCEPT ![e] =
                           [reqs[r].allEvents[e] EXCEPT !.signedUpStaff =
                               SelectSeq(@, LAMBDA id : id # reqs[r].staffId)]]
          /\ reqs' = [reqs EXCEPT ![r].eventsLeft = @ \ {e}]
    /\ UNCHANGED <<last, sent, nops>>
    /\ EventFrame

\* after the loop: kv.del of the staff record, the auth user is deleted, the
\* handler answers
DeleteStaffDelUser(r) ==
    /\ reqs[r].pc = "cascade"
    /\ reqs[r].eventsLeft = {}
    /\ users' = [users EXCEPT ![reqs[r].staffId] = NoUser]
    /\ Respond(r, Outcome("deleteStaff", 200), <<>>)
    /\ UNCHANGED <<levels, events, adjustments, channels, now, credited, overlapped,
                   nops, session, notice>>

InitDeleteStaff ==
    /\ levels = SeedLevels
    /\ users = [i \in Staff |-> NewStaff(0, "L1", FALSE, FALSE)]
    /\ \E signedUp \in Lists(Staff) :
          events = [e \in EventIds |->
                       IF e = "e1"
                       THEN [NewEvent("open", "L1", 1) EXCEPT
                                !.signedUpStaff = signedUp,
                                !.signUpTimestamps = Range(signedUp)]
                       ELSE NewEvent("open", "L1", 1)]
    /\ adjustments = {}
    /\ channels = [telegram |-> FALSE, whatsapp |-> FALSE, email |-> FALSE]
    /\ now = 0
    /\ reqs = [r \in ReqIds |-> Idle]
    /\ last = Outcome("none", 0)
    /\ sent = <<>>
    /\ credited = [i \in Staff |-> 0]
    /\ overlapped = FALSE
    /\ nops = 0
    /\ session = Admin
    /\ notice = NoNotices

NextDeleteStaff ==
    \/ \E e \in EventIds, s \in Staff : SignUp(e, s)
    \/ \E e \in EventIds, s \in Staff : CancelSignUp(e, s)
    \/ \E r \in ReqIds, s \in Staff :
          (InFlight # ReqIds /\ r = FirstIdle) /\ StartDeleteStaff(r, s)
    \/ \E r \in ReqIds : DeleteStaffSetEvent(r)
    \/ \E r \in ReqIds : DeleteStaffDelUser(r)

SpecDeleteStaff == InitDeleteStaff /\ [][NextDeleteStaff]_vars

\* ---- claim helpers
\* this step is the answer of a staff deletion that went through
DeletionAnswered(s) ==
    /\ \E r \in ReqIds : reqs[r].op = "deleteStaff" /\ reqs[r].staffId = s
                         /\ reqs'[r].pc = "idle"
    /\ users[s] # NoUser
    /\ users'[s] = NoUser

\* C27: when a staff deletion has been answered, the deleted id is in no event's
\* signedUpStaff.
C27_DeletedStaffSignedUpNowhere ==
    [][\A s \in Staff :
          DeletionAnswered(s)
             => \A e \in EventIds : ~Includes(events'[e].signedUpStaff, s)]_vars

\* =========================================================================
\* Invitation: POST /staff/invite, the password setup and the level routes
\* =========================================================================
\* the record stored for an invited staff member
InvitedStaff(phone) ==
    [NewStaff(0, NoName, FALSE, phone) EXCEPT !.status = "pending"]

\* POST /staff/invite; emailExists: some stored user has the payload's email
InviteStaff(phone, emailExists) ==
    /\ nops < MaxOps
    /\ emailExists => \E i \in Staff : users[i] # NoUser
    /\ IF emailExists
       THEN /\ last' = Outcome("invite", 400)
            /\ sent' = <<>>
            /\ UNCHANGED users
       ELSE /\ \E i \in Staff : users[i] = NoUser
            /\ LET id == CHOOSE i \in Staff :
                            users[i] = NoUser /\ \A j \in 1..(i - 1) : users[j] # NoUser
               IN /\ users' = [users EXCEPT ![id] = InvitedStaff(phone)]
                  /\ last' = [Outcome("invite", 200) EXCEPT !.staffId = id]
                  /\ \E ok \in (IF channels.email THEN BOOLEAN ELSE {FALSE}) :
                        sent' = <<Attempt("invited", id, "email", ok)>>
    /\ nops' = nops + 1
    /\ UNCHANGED <<levels, events, adjustments, channels, now, reqs, credited, overlapped,
                   session, notice>>

\* POST /staff/setup-password with the temporary password of a stored staff member
SetupPassword(staffId) ==
    /\ nops < MaxOps
    /\ users[staffId] # NoUser
    /\ users' = [users EXCEPT ![staffId].status = "active"]
    /\ last' = [Outcome("setupPassword", 200) EXCEPT !.staffId = staffId]
    /\ sent' = <<>>
    /\ nops' = nops + 1
    /\ UNCHANGED <<levels, events, adjustments, channels, now, reqs, credited, overlapped,
                   session, notice>>

InitInvite ==
    /\ levels \in {SeedLevels, [i \in LevelIds |-> NoLevel]}
    /\ users = [i \in Staff |-> IF i = 1 THEN NewStaff(0, "L1", FALSE, FALSE) ELSE NoUser]
    /\ events = [e \in EventIds |-> NoEvent]
    /\ adjustments = {}
    /\ channels \in [telegram : {FALSE}, whatsapp : {FALSE}, email : BOOLEAN]
    /\ now = 0
    /\ reqs = [r \in ReqIds |-> Idle]
    /\ last = Outcome("none", 0)
    /\ sent = <<>>
    /\ credited = [i \in Staff |-> 0]
    /\ overlapped = FALSE
    /\ nops = 0
    /\ session = Admin
    /\ notice = NoNotices

NextInvite ==
    \/ \E phone \in BOOLEAN, emailExists \in BOOLEAN : InviteStaff(phone, emailExists)
    \/ \E s \in Staff : SetupPassword(s)
    \/ \E name \in LevelNames, minPoints \in MinPointValues : AddLevel(name, minPoints)
    \/ \E levelId \in LevelIds, name \in LevelNames, minPoints \in MinPointValues :
          UpdateLevel(levelId, name, minPoints)
    \/ \E levelId \in LevelIds : DeleteLevel(levelId)

SpecInvite == InitInvite /\ [][NextInvite]_vars

\* C28: a staff member created by invitation is stored with status pending, points
\* 0 and the level the reference resolver gives for 0 points.
C28_InvitedAtResolverLevel ==
    [][\A s \in Staff :
          (last'.op = "invite" /\ last'.code = 200 /\ last'.staffId = s
           /\ users[s] = NoUser /\ users'[s] # NoUser)
             => /\ users'[s].status = "pending"
                /\ users'[s].points = 0
                /\ users'[s].level \in ResolverNamesOf(LevelSet', 0)]_vars

\* =========================================================================
\* Cancelling, await by await: the order of the sends and the purge
\* =========================================================================
\* the purge reached without the Telegram loop
AfterEmailLoop_SkipTelegram(telegramConnected, withChat) == "purge"

\* where the handler goes after the email loop: telegramSettings.connected opens
\* the Telegram loop, which awaits once per staff member with a chat id
AfterEmailLoop(telegramConnected, withChat) ==
    IF telegramConnected /\ Len(withChat) > 0 THEN "telegram" ELSE "purge"

\* const allUsers = await kv.getByPrefix('user:') and the filter; without
\* RESEND_API_KEY the email loop awaits nothing and the handler is at the read of
\* telegram:settings at once
CancelGetUsers(r) ==
    /\ reqs[r].pc = "notify"
    /\ LET staff == participatingStaff(reqs[r].event)
           withChat == SelectSeq(staff, HasChat)
       IN reqs' = [reqs EXCEPT ![r].participatingStaff = staff,
                               ![r].withChat = withChat,
                               ![r].todo = IF channels.email THEN staff ELSE <<>>,
                               ![r].pc = "email"]
    /\ UNCHANGED <<events, last, sent, nops>>
    /\ EventFrame

\* one turn of the email loop: the request to the mail service comes back
CancelSendEmail(r) ==
    /\ reqs[r].pc = "email"
    /\ Len(reqs[r].todo) > 0
    /\ \E ok \in BOOLEAN :
          reqs' = [reqs EXCEPT ![r].attempts =
                                   Append(@, Attempt("cancelled", reqs[r].todo[1], "email", ok)),
                               ![r].todo = Tail(@)]
    /\ UNCHANGED <<events, last, sent, nops>>
    /\ EventFrame

\* const telegramSettings = await kv.get('telegram:settings')
CancelGetTelegram(r) ==
    /\ reqs[r].pc = "email"
    /\ Len(reqs[r].todo) = 0
    /\ reqs' = [reqs EXCEPT ![r].pc = AfterEmailLoop(channels.telegram, reqs[r].withChat),
                            ![r].todo = IF channels.telegram THEN reqs[r].withChat ELSE <<>>]
    /\ UNCHANGED <<events, last, sent, nops>>
    /\ EventFrame

\* one turn of the Telegram loop for a staff member with a chat id
CancelSendTelegram(r) ==
    /\ reqs[r].pc = "telegram"
    /\ Len(reqs[r].todo) > 0
    /\ \E ok \in BOOLEAN :
          reqs' = [reqs EXCEPT ![r].attempts =
                                   Append(@, Attempt("cancelled", reqs[r].todo[1], "telegram", ok)),
                               ![r].todo = Tail(@),
                               ![r].pc = IF Len(reqs[r].todo) > 1 THEN "telegram" ELSE "purge"]
    /\ UNCHANGED <<events, last, sent, nops>>
    /\ EventFrame

\* cancelledEvent.signedUpStaff = []; await kv.set(...); the response
CancelPurgeWrite(r) ==
    /\ reqs[r].pc = "purge"
    /\ events' = [events EXCEPT ![reqs[r].eventId] = CancelPurge(reqs[r].event)]
    /\ Respond(r, [Outcome("cancel", 200) EXCEPT !.before = reqs[r].existingEvent,
                                                 !.recipients = reqs[r].participatingStaff],
               reqs[r].attempts)
    /\ UNCHANGED nops
    /\ EventFrame

InitCancelSteps ==
    /\ levels = SeedLevels
    /\ users = [i \in Staff |-> IF i < NumStaff THEN NewStaff(0, "L1", i # 2, FALSE)
                                 ELSE NoUser]
    /\ \E signedUp \in Lists({i \in Staff : i < NumStaff}) :
          events = [e \in EventIds |->
                       IF e = "e1"
                       THEN [NewEvent("open", "L1", 1) EXCEPT
                                !.signedUpStaff = signedUp,
                                !.signUpTimestamps = Range(signedUp)]
                       ELSE NoEvent]
    /\ adjustments = {}
    /\ channels \in [telegram : BOOLEAN, whatsapp : {FALSE}, email : BOOLEAN]
    /\ now = 0
    /\ reqs = [r \in ReqIds |-> Idle]
    /\ last = Outcome("none", 0)
    /\ sent = <<>>
    /\ credited = [i \in Staff |-> 0]
    /\ overlapped = FALSE
    /\ nops = 0
    /\ session = Admin
    /\ notice = NoNotices

NextCancelSteps ==
    \/ \E r \in ReqIds, e \in EventIds :
          (InFlight # ReqIds /\ r = FirstIdle) /\ StartCancel(r, e)
    \/ \E r \in ReqIds : CancelGetUsers(r)
    \/ \E r \in ReqIds : CancelSendEmail(r)
    \/ \E r \in ReqIds : CancelGetTelegram(r)
    \/ \E r \in ReqIds : CancelSendTelegram(r)
    \/ \E r \in ReqIds : CancelPurgeWrite(r)
    \/ \E e \in EventIds, s \in Staff : SignUp(e, s)
    \/ \E e \in EventIds, s \in Staff : CancelSignUp(e, s)

SpecCancelSteps == InitCancelSteps /\ [][NextCancelSteps]_vars

\* ---- claim helpers
\* request r is a cancel that still has a send to make
PendingCancelAttempts(r) ==
    /\ reqs[r].op = "cancel"
    /\ \/ /\ reqs[r].pc = "notify"
          /\ \E i \in Range(participatingStaff(reqs[r].event)) :
                channels.email \/ (channels.telegram /\ HasChat(i))
       \/ /\ reqs[r].pc = "email"
          /\ Len(reqs[r].todo) > 0 \/ (channels.telegram /\ Len(reqs[r].withChat) > 0)
       \/ /\ reqs[r].pc = "telegram"
          /\ Len(reqs[r].todo) > 0

\* the request has made its attempt for every recipient on every configured channel
CancelAttemptsMade(rq) ==
    /\ channels.email =>
          \A s \in Range(rq.participatingStaff) :
             \E i \in 1..Len(rq.attempts) :
                rq.attempts[i].staffId = s /\ rq.attempts[i].channel = "email"
    /\ channels.telegram =>
          \A s \in Range(rq.withChat) :
             \E i \in 1..Len(rq.attempts) :
                rq.attempts[i].staffId = s /\ rq.attempts[i].channel = "telegram"

\* C29 as stated: in no state is the stored signedUpStaff of the event empty while
\* a cancel request for it still has a cancellation attempt to make.
C29_NeverEmptyWhilePending ==
    \A r \in ReqIds :
       PendingCancelAttempts(r) => Len(events[reqs[r].eventId].signedUpStaff) > 0

\* C29 amended: a cancel request writes the event without its sign-ups only after
\* it has made its own attempt for every recipient on every configured channel, and
\* none of its earlier steps changes the stored signedUpStaff; another request can
\* empty the stored list in between.
C29_PurgeAfterOwnAttempts ==
    /\ [](\A r \in ReqIds : reqs[r].pc = "purge" => CancelAttemptsMade(reqs[r]))
    /\ [][\A r \in ReqIds :
            /\ (reqs[r].op = "cancel" /\ reqs[r].pc \in {"notify", "email", "telegram"}
                /\ reqs'[r] # reqs[r]) => events' = events
            /\ (reqs[r].pc = "idle" /\ reqs'[r].pc = "notify") =>
                  events'[reqs'[r].eventId].signedUpStaff =
                     events[reqs'[r].eventId].signedUpStaff]_vars

\* C29 witness: a cancel that made an email and a Telegram attempt has written its
\* purge and answered
C29_Witness ==
    /\ last.op = "cancel"
    /\ last.code = 200
    /\ \E i, j \in 1..Len(sent) : sent[i].channel = "email" /\ sent[j].channel = "telegram"
    /\ events[last.eventId].signedUpStaff = <<>>
    /\ Len(last.before.signedUpStaff) > 0

\* =========================================================================
\* Editing with list fields in the payload
\* =========================================================================
InitEditLists ==
    /\ levels = SeedLevels
    /\ users = [i \in Staff |-> NewStaff(0, "L1", i # 2, FALSE)]
    /\ \E confirmed \in Lists({1, 2}), awarded \in Lists({1, 2}) :
          /\ Range(awarded) \subseteq Range(confirmed)
          /\ events = [e \in EventIds |->
                          IF e = "e1"
                          THEN [NewEvent("closed", "L1", 1) EXCEPT
                                   !.signedUpStaff = <<1, 2>>,
                                   !.signUpTimestamps = {1, 2},
                                   !.confirmedStaff = confirmed,
                                   !.pointsAwarded = awarded,
                                   !.hasBeenClosedBefore = TRUE]
                          ELSE NoEvent]
    /\ adjustments = {}
    /\ channels \in [telegram : BOOLEAN, whatsapp : {FALSE}, email : {FALSE}]
    /\ now = 0
    /\ reqs = [r \in ReqIds |-> Idle]
    /\ last = Outcome("none", 0)
    /\ sent = <<>>
    /\ credited = [i \in Staff |-> 0]
    /\ overlapped = FALSE
    /\ nops = 0
    /\ session = Admin
    /\ notice = NoNotices

NextEditLists ==
    \/ \E e \in EventIds, approvedStaffIds \in Lists(Staff) :
          nops < MaxEditOps /\ CloseEvent(e, approvedStaffIds)
    \/ \E e \in EventIds, status \in {Absent, "open"}, fields \in {{}, {"name"}},
          lists \in ListPayloads :
          nops < MaxEditOps /\ EditEventWith(e, status, fields, lists)

SpecEditLists == InitEditLists /\ [][NextEditLists]_vars

\* C30: an edit leaves signedUpStaff, confirmedStaff, hasBeenClosedBefore and
\* pointsAwarded of the event as they were stored, whatever the payload carries.
C30_EditKeepsLists ==
    [][\A e \in EventIds :
          (nops' = nops + 1 /\ last'.op = "edit" /\ last'.code = 200 /\ last'.eventId = e)
             => /\ events'[e].signedUpStaff = events[e].signedUpStaff
                /\ events'[e].confirmedStaff = events[e].confirmedStaff
                /\ events'[e].hasBeenClosedBefore = events[e].hasBeenClosedBefore
                /\ events'[e].pointsAwarded = events[e].pointsAwarded]_vars

\* =========================================================================
\* Notification failures: create, edit, close and cancel with failing sends
\* =========================================================================
\* ---- claim helpers
NotifyingOps == {"createEvent", "edit", "close", "cancel"}

\* this step answers a create, edit, close or cancel request for event e
NotifyingAnswer(e) ==
    /\ last'.op \in NotifyingOps
    /\ last'.eventId = e
    /\ \/ nops' = nops + 1 /\ reqs' = reqs
       \/ \E r \in ReqIds : reqs[r].op = "cancel" /\ reqs[r].eventId = e
                            /\ reqs[r].pc = "notify" /\ reqs'[r].pc = "idle"

\* what the answered request was to store is in the store
MutationStored(e) ==
    /\ events'[e] # NoEvent
    /\ last'.op = "edit" =>
          /\ DetectChanges(events[e], events'[e]) = last'.changes
          /\ last'.status # Absent => events'[e].status = last'.status
    /\ last'.op = "close" =>
          events'[e].status = "closed" /\ events'[e].confirmedStaff = last'.approved
    /\ last'.op = "cancel" => events'[e].status = "cancelled"

\* C26: a create, edit, close or cancel of an event is answered with success and
\* its mutation is stored whatever the send attempts give; cancel has stored the
\* cancelled status before it makes an attempt; no attempt is made on a channel
\* that is not connected.
C26_NotificationNeverFatal ==
    /\ [](\A i \in 1..Len(sent) : channels[sent[i].channel])
    /\ [][\A e \in EventIds :
            /\ (NotifyingAnswer(e) /\ (last'.op = "createEvent" \/ events[e] # NoEvent))
                  => (last'.code = 200 /\ MutationStored(e))
            /\ \A r \in ReqIds :
                  (reqs[r].pc = "idle" /\ reqs'[r].pc = "notify" /\ reqs'[r].eventId = e)
                     => (events'[e].status = "cancelled" /\ sent' = sent)]_vars

\* C26 witness: a close was answered with success and stored although a send failed
C26_Witness ==
    /\ last.op = "close"
    /\ last.code = 200
    /\ \E i \in 1..Len(sent) : ~sent[i].ok
    /\ events[last.eventId].status = "closed"
    /\ events[last.eventId].confirmedStaff = last.approved

\* =========================================================================
\* Authorization: every route called with the token of every kind of principal
\* =========================================================================
MaxAuthOps == 2

\* the record of the seeded administrator
AdminUser == [NewStaff(0, NoName, FALSE, FALSE) EXCEPT !.role = "admin"]

Principals == {Anonymous, Admin} \cup Staff

\* verifyAuth: the header carries a token that resolves to a user
Authenticated(p) == p # Anonymous

\* kv.get(`user:${user.id}`)
UserData(p) ==
    IF p = Admin THEN AdminUser
    ELSE IF p \in Staff THEN users[p]
    ELSE NoUser

\* any stored user taken for an administrator
AdminCheck_AnyUser(userData) == userData # NoUser

\* !userData || userData.role !== 'admin' gives 403
AdminCheck(userData) == userData # NoUser /\ userData.role = "admin"

\* an early return with an error: nothing is written
Reject(op, code) ==
    /\ last' = Outcome(op, code)
    /\ sent' = <<>>
    /\ nops' = nops + 1
    /\ UNCHANGED <<levels, users, events, adjustments, channels, now, reqs, credited,
                   overlapped, session, notice>>

\* the head of an admin-only route, then its handler
AdminRoute(op, Handler) ==
    IF ~Authenticated(session) THEN Reject(op, 401)
    ELSE IF ~AdminCheck(UserData(session)) THEN Reject(op, 403)
    ELSE Handler

\* the head of a route open to every signed-in user, then its handler
UserRoute(op, Handler) ==
    IF ~Authenticated(session) THEN Reject(op, 401)
    ELSE Handler

\* POST /login: the client holds the token of p from now on; the token outlives
\* the stored record of its user
Login(p) ==
    /\ session # p
    /\ session' = p
    /\ UNCHANGED <<levels, users, events, adjustments, channels, now, reqs, last, sent,
                   credited, overlapped, nops, notice>>

\* DELETE /events/:id, past its admin check
DeleteEvent(eventId) ==
    /\ nops < MaxOps
    /\ events' = [events EXCEPT ![eventId] = NoEvent]
    /\ last' = [Answer("deleteEvent", 200, eventId) EXCEPT !.before = events[eventId]]
    /\ sent' = <<>>
    /\ nops' = nops + 1
    /\ UNCHANGED reqs
    /\ EventFrame

InitAuth ==
    /\ levels = SeedLevels
    /\ users = [i \in Staff |->
                   IF i = NumStaff THEN AdminUser
                   ELSE IF i = 2 THEN NoUser
                   ELSE NewStaff(0, "L1", TRUE, FALSE)]
    /\ \E list \in {<<>>, <<1>>} :
          events = [e \in EventIds |->
                       IF e = "e1"
                       THEN [NewEvent("closed", "L1", 1) EXCEPT
                                !.signedUpStaff = list,
                                !.signUpTimestamps = Range(list),
                                !.confirmedStaff = list,
                                !.hasBeenClosedBefore = TRUE]
                       ELSE NoEvent]
    /\ adjustments = {}
    /\ channels = [telegram |-> TRUE, whatsapp |-> FALSE, email |-> TRUE]
    /\ now = 0
    /\ reqs = [r \in ReqIds |-> Idle]
    /\ last = Outcome("none", 0)
    /\ sent = <<>>
    /\ credited = [i \in Staff |-> 0]
    /\ overlapped = FALSE
    /\ nops = 0
    /\ session \in Principals
    /\ notice = NoNotices

NextAuth ==
    \/ \E p \in Principals : Login(p)
    \/ nops < MaxAuthOps /\ \E status \in {"draft", "open"} :
          AdminRoute("createEvent", CreateEvent(status, "L1", 1))
    \/ nops < MaxAuthOps /\ \E e \in EventIds, status \in {Absent, "open"} :
          AdminRoute("edit", EditEvent(e, status, {}))
    \/ nops < MaxAuthOps /\ \E r \in ReqIds, e \in EventIds :
          AdminRoute("cancel", (InFlight # ReqIds /\ r = FirstIdle) /\ StartCancel(r, e))
    \/ \E r \in ReqIds : CancelNotify(r)
    \/ nops < MaxAuthOps /\ \E e \in EventIds : AdminRoute("reinstate", ReinstateEvent(e))
    \/ nops < MaxAuthOps /\ \E e \in EventIds : AdminRoute("deleteEvent", DeleteEvent(e))
    \/ nops < MaxAuthOps /\ \E e \in EventIds, approvedStaffIds \in {<<>>, <<1>>} :
          AdminRoute("close", CloseEvent(e, approvedStaffIds))
    \/ nops < MaxAuthOps /\ \E e \in EventIds :
          AdminRoute("adminSignUp", AdminSignUp(e, <<1>>))
    \/ nops < MaxAuthOps /\ \E r \in ReqIds, e \in EventIds :
          AdminRoute("confirmOne",
                     (InFlight # ReqIds /\ r = FirstIdle) /\ StartConfirmOne(r, e, 1))
    \/ nops < MaxAuthOps /\ \E r \in ReqIds, e \in EventIds :
          AdminRoute("confirmAll",
                     (InFlight # ReqIds /\ r = FirstIdle) /\ StartConfirmAll(r, e))
    \/ \E r \in ReqIds : ConfirmGetEvent(r)
    \/ \E r \in ReqIds : ConfirmGetStaff(r)
    \/ \E r \in ReqIds : ConfirmCalcLevel(r)
    \/ \E r \in ReqIds : ConfirmSetStaff(r)
    \/ \E r \in ReqIds : ConfirmSetEvent(r)
    \/ \E r \in ReqIds : ConfirmSetAdjustment(r)
    \/ \E r \in ReqIds : ConfirmSendEmail(r)
    \/ nops < MaxAuthOps /\ \E s \in {1, 2} : AdminRoute("adjust", AdjustPoints(s, 2))
    \/ nops < MaxAuthOps /\ \E s \in {1, 2} :
          AdminRoute("updateStaff", UpdateStaff(s, "L2", TRUE, FALSE))
    \/ nops < MaxAuthOps /\ \E s \in Staff : AdminRoute("deleteStaff", DeleteStaff(s))
    \/ nops < MaxAuthOps /\ \E emailExists \in BOOLEAN :
          AdminRoute("invite", InviteStaff(FALSE, emailExists))
    \/ nops < MaxAuthOps /\ AdminRoute("addLevel", AddLevel("L3", 2))
    \/ nops < MaxAuthOps /\ \E levelId \in LevelIds :
          AdminRoute("updateLevel", UpdateLevel(levelId, "L1", 2))
    \/ nops < MaxAuthOps /\ \E levelId \in LevelIds :
          AdminRoute("deleteLevel", DeleteLevel(levelId))
    \/ nops < MaxAuthOps /\ \E levelId \in LevelIds :
          AdminRoute("reorderLevel", ReorderLevel(levelId, "up"))
    \/ nops < MaxAuthOps /\ \E e \in EventIds :
          UserRoute("signUp", session \in Staff /\ SignUp(e, session))
    \/ nops < MaxAuthOps /\ \E e \in EventIds :
          UserRoute("cancelSignUp", session \in Staff /\ CancelSignUp(e, session))

SpecAuth == InitAuth /\ [][NextAuth]_vars

\* ---- claim helpers
\* the caller is not an administrator: no token, no stored record, or role staff
NonAdminCaller == ~Authenticated(session) \/ UserData(session).role # "admin"

\* a route that runs in one step has answered
AnsweredInOneStep == nops' = nops + 1 /\ reqs' = reqs

\* nothing in the store is written
StoreUnchanged == UNCHANGED <<levels, users, events, adjustments>>

\* the only difference between the event before and after is the presence of id in
\* signedUpStaff and signUpTimestamps
OnlyOwnSignUpDiffers(before, after, id) ==
    /\ before # NoEvent /\ after # NoEvent
    /\ [before EXCEPT !.signedUpStaff = <<>>, !.signUpTimestamps = {}] =
          [after EXCEPT !.signedUpStaff = <<>>, !.signUpTimestamps = {}]
    /\ SelectSeq(before.signedUpStaff, LAMBDA i : i # id) =
          SelectSeq(after.signedUpStaff, LAMBDA i : i # id)
    /\ before.signUpTimestamps \ {id} = after.signUpTimestamps \ {id}

\* C22: a caller whose stored role is not admin (or who has no token or no record)
\* gets 401 or 403 from every administrator-only route with the store unchanged and
\* no request started; the only writes such a caller makes are the self sign-up and
\* its withdrawal, which touch nothing but the caller's own id in one event.
C22_AdminRoutesRejectOthers ==
    [][NonAdminCaller =>
          /\ \A r \in ReqIds : reqs[r].pc = "idle" => reqs'[r].pc = "idle"
          /\ AnsweredInOneStep =>
                \/ last'.code \in {401, 403} /\ StoreUnchanged
                \/ /\ last'.op \in {"signUp", "cancelSignUp"}
                   /\ session \in Staff /\ last'.staffId = session
                   /\ UNCHANGED <<levels, users, adjustments>>
                   /\ \A e \in EventIds :
                         \/ events'[e] = events[e]
                         \/ /\ e = last'.eventId
                            /\ OnlyOwnSignUpDiffers(events[e], events'[e], session)]_vars

C22_Witness ==
    /\ session \in Staff /\ UserData(session).role = "staff"
    /\ last.op = "adjust" /\ last.code = 403
    /\ nops = 2 /\ adjustments = {}
    /\ \E e \in EventIds : events[e] # NoEvent /\ Includes(events[e].signedUpStaff, session)

\* the error codes of a rejected request
RejectionCodes == {400, 401, 403, 404}

\* a request that ran in steps has answered
AnsweredAfterSteps == \E r \in ReqIds : reqs[r].pc # "idle" /\ reqs'[r].pc = "idle"

\* C21: the step in which a request is answered with 400, 401, 403 or 404 writes
\* nothing to the store, a request that ran in steps is rejected only before its
\* first write, and close, cancel and edit of an event id that does not resolve
\* answer 404 and write nothing.
C21_RejectedWritesNothing ==
    [][/\ (AnsweredInOneStep \/ AnsweredAfterSteps) /\ last'.code \in RejectionCodes
             => StoreUnchanged
       /\ \A r \in ReqIds :
             (reqs[r].pc # "idle" /\ reqs'[r].pc = "idle" /\ last'.code \in RejectionCodes)
                => \/ reqs[r].pc = "getEvent"
                   \/ reqs[r].pc = "getStaff" /\ reqs[r].op = "confirmOne"
       /\ \A e \in EventIds :
             (/\ ~NonAdminCaller /\ events[e] = NoEvent
              /\ nops' = nops + 1
              /\ last'.op \in {"close", "cancel", "edit"} /\ last'.eventId = e
              /\ last' # last)
                => last'.code = 404 /\ reqs' = reqs /\ StoreUnchanged]_vars

C21_Witness ==
    /\ last.op = "close" /\ last.code = 404 /\ events[last.eventId] = NoEvent
    /\ Authenticated(session)
    /\ UserData(session).role = "admin"
    /\ nops = 2
    /\ \E e \in EventIds : events[e] # NoEvent /\ events[e].status = "cancelled"

\* =========================================================================
\* Confirm-all over a confirmed list that holds ids of deleted staff
\* =========================================================================
\* ---- claim helpers
\* the step in which request r answers a confirm-all with 200
ConfirmAllReturns(r) ==
    /\ reqs[r].op = "confirmAll" /\ reqs[r].pc = "setEvent"
    /\ reqs'[r].pc = "idle"
    /\ last'.code = 200

\* C31: when a confirm-all returns, every existing staff member it had to confirm
\* has a PointAdjustment for the event, ids that no longer resolve did not fail the
\* call, and every id in the stored pointsAwarded has a PointAdjustment with that
\* eventId and staffId.
C31_AwardedIdsHaveAdjustment ==
    [][\A r \in ReqIds :
          ConfirmAllReturns(r) =>
             /\ \A s \in Range(reqs[r].staffToConfirm) :
                   users'[s] # NoUser =>
                      \E a \in adjustments' : a.staffId = s /\ a.eventId = reqs[r].eventId
             /\ \A s \in Range(events'[reqs[r].eventId].pointsAwarded) :
                   \E a \in adjustments' : a.staffId = s /\ a.eventId = reqs[r].eventId]_vars

\* =========================================================================
\* Level stored and level change reported by the points mutations
\* =========================================================================
\* ---- claim helpers
\* the stored record of s is the one request r read, so nothing was written to it
\* between the request's read and its write
ReadIsCurrent(r) == users[reqs[r].staffId] = reqs[r].staff

\* the stored record of s is the one request r wrote
WriteIsCurrent(r) ==
    users[reqs[r].staffId] = [reqs[r].staff EXCEPT !.points = reqs[r].newPoints,
                                                   !.level = reqs[r].newLevel]

\* C32: a step that changes a staff member's points stores, in the same record, a
\* level the resolver allows for the new points; adjust and confirm report leveledUp,
\* and confirm-all adds a levelUps entry, exactly when the level stored by the
\* mutation differs from the level stored before it.
C32_LevelStoredWithPoints ==
    [][/\ \A s \in Staff :
             (users[s] # NoUser /\ users'[s] # NoUser /\ users'[s].points # users[s].points)
                => users'[s].level \in ResolverNames(users'[s].points)
       /\ (AnsweredInOneStep /\ last'.op = "adjust" /\ last'.code = 200)
             => (last'.leveledUp <=>
                    users'[last'.staffId].level # users[last'.staffId].level)
       /\ \A r \in ReqIds :
             (reqs[r].op = "confirmAll" /\ reqs[r].pc = "setStaff"
                /\ reqs'[r].pc # "setStaff" /\ ReadIsCurrent(r))
                => ((reqs[r].staffId \in reqs'[r].levelUps) <=>
                       users'[reqs[r].staffId].level # users[reqs[r].staffId].level)
       /\ \A r \in ReqIds :
             (reqs[r].op = "confirmOne" /\ reqs[r].pc = "sendEmail"
                /\ reqs'[r].pc = "idle" /\ WriteIsCurrent(r))
                => (last'.leveledUp <=>
                       users[reqs[r].staffId].level # reqs[r].staff.level)
       /\ \A r \in ReqIds :
             (reqs[r].op = "confirmAll" /\ reqs[r].pc = "setEvent" /\ reqs'[r].pc = "idle")
                => last'.levelUps = reqs[r].levelUps]_vars

\* C32 witness: a confirm-all reported a level-up for a staff member who holds the
\* points of the event and the level those points give
C32_Witness ==
    /\ last.op = "confirmAll" /\ last.code = 200
    /\ \E s \in last.levelUps :
          /\ users[s] # NoUser
          /\ users[s].points = events[last.eventId].points
          /\ users[s].level = "L2"
    /\ \E s \in Staff : users[s] # NoUser /\ users[s].level = "L1"

\* =========================================================================
\* Reorder as an exchange of two order values
\* =========================================================================
\* ---- claim helpers
\* a reorder request has been answered in this step
ReorderAnswered == nops' = nops + 1 /\ last'.op = "reorderLevel"

\* how many stored levels carry the order value o in table t
OrderCount(t, o) == Cardinality({i \in LevelIds : t[i] # NoLevel /\ t[i].order = o})

\* no stored level other than a and b has an order value strictly between theirs
AdjacentInOrder(a, b) ==
    \A i \in LevelIds \ {a, b} :
       levels[i] # NoLevel =>
          ~(/\ levels[i].order > levels[a].order /\ levels[i].order < levels[b].order)
           /\ ~(/\ levels[i].order > levels[b].order /\ levels[i].order < levels[a].order)

C34_ReinstateOnlyCancelled ==
    [][(AnsweredInOneStep /\ last'.op = "reinstate"
          /\ events[last'.eventId] # NoEvent) =>
          LET e == last'.eventId
          IN /\ sent' = <<>>
             /\ \A f \in EventIds \ {e} : events'[f] = events[f]
             /\ IF events[e].status = "cancelled"
                THEN /\ last'.code = 200
                     /\ events'[e] = [events[e] EXCEPT !.status = "upcoming"]
                ELSE /\ last'.code # 200
                     /\ events'[e] = events[e]]_vars

\* =========================================================================
\* One dispatch batch under every pattern of failed sends
\* =========================================================================
\* ---- claim helpers
\* the staff ids of the attempts of one batch of the last request, in sending order
BatchIds(kind, channel) ==
    LET batch == SelectSeq(sent, LAMBDA a : a.kind = kind /\ a.channel = channel)
    IN [i \in 1..Len(batch) |-> batch[i].staffId]

\* the recipients of a Telegram batch that have a chat id, in list order
WithChatId(ids) == IF channels.telegram THEN SelectSeq(ids, HasChat) ELSE <<>>

\* C35: in each batch of a close or a cancel, whatever sends fail, the attempts are
\* exactly one per recipient that has an address on the channel, in list order:
\* a failed send is not repeated and does not end the batch, and a recipient without
\* an address is passed over.
C35_OneAttemptPerRecipient ==
    /\ (last.op = "close" /\ last.code = 200) =>
          /\ BatchIds("selected", "telegram") = WithChatId(last.selected)
          /\ BatchIds("not selected", "telegram") = WithChatId(last.deselected)
          /\ Len(sent) = Len(WithChatId(last.selected)) + Len(WithChatId(last.deselected))
    /\ (last.op = "cancel" /\ last.code = 200) =>
          /\ BatchIds("cancelled", "telegram") = WithChatId(last.recipients)
          /\ BatchIds("cancelled", "email") =
                IF channels.email THEN last.recipients ELSE <<>>
          /\ Len(sent) = Len(BatchIds("cancelled", "telegram"))
                            + Len(BatchIds("cancelled", "email"))

\* C35 witness: a close whose first send failed, whose second recipient has no chat
\* id, and whose third recipient was attempted all the same
C35_Witness ==
    /\ last.op = "close" /\ last.code = 200
    /\ Len(last.selected) = 3
    /\ HasChat(last.selected[1]) /\ ~HasChat(last.selected[2]) /\ HasChat(last.selected[3])
    /\ Len(sent) = 2
    /\ ~sent[1].ok /\ sent[1].staffId = last.selected[1]
    /\ sent[2].staffId = last.selected[3]

\* =========================================================================
\* hasBeenClosedBefore over the life of an event
\* =========================================================================
\* C36: hasBeenClosedBefore never goes from true back to false on a stored event,
\* whatever sign-up, withdrawal, close or cancel writes the event afterwards.
C36_ClosedBeforeIsMonotonic ==
    [][\A e \in EventIds :
          (events[e] # NoEvent /\ events[e].hasBeenClosedBefore /\ events'[e] # NoEvent)
             => events'[e].hasBeenClosedBefore]_vars

\* =========================================================================
\* Selection notices over sign-ups, withdrawals, closes, cancels and reinstates
\* =========================================================================
InitSelection ==
    /\ levels = SeedLevels
    /\ \E chat \in BOOLEAN :
          users = [i \in Staff |-> NewStaff(0, "L1", i # 2 \/ chat, FALSE)]
    /\ events = [e \in EventIds |-> IF e = "e1" THEN NewEvent("open", "L1", 1) ELSE NoEvent]
    /\ adjustments = {}
    /\ channels \in [telegram : BOOLEAN, whatsapp : {FALSE}, email : {FALSE}]
    /\ now = 0
    /\ reqs = [r \in ReqIds |-> Idle]
    /\ last = Outcome("none", 0)
    /\ sent = <<>>
    /\ credited = [i \in Staff |-> 0]
    /\ overlapped = FALSE
    /\ nops = 0
    /\ session = Admin
    /\ notice = [NoNotices EXCEPT !.on = TRUE]

NextSelection ==
    \/ \E s \in Staff : SignUp("e1", s)
    \/ \E s \in Staff : CancelSignUp("e1", s)
    \/ \E approvedStaffIds \in Lists(Staff) : CloseEvent("e1", approvedStaffIds)
    \/ \E r \in ReqIds : (InFlight # ReqIds /\ r = FirstIdle) /\ StartCancel(r, "e1")
    \/ \E r \in ReqIds : CancelNotify(r)
    \/ ReinstateEvent("e1")

SpecSelection == InitSelection /\ [][NextSelection]_vars

\* C37: when a close has returned, every signed-up staff member Telegram can reach
\* has had a selection notice for the event, and the last one says 'selected' for a
\* member of confirmedStaff and 'not selected' for the others.
C37_LastNoticeMatchesStatus ==
    (last.op = "close" /\ last.code = 200 /\ channels.telegram) =>
       LET event == events[last.eventId]
       IN \A s \in Range(event.signedUpStaff) :
             HasChat(s) =>
                notice.of[last.eventId][s] =
                   IF Includes(event.confirmedStaff, s) THEN "selected" ELSE "not selected"

\* =========================================================================
\* The adjustment records as a ledger of the points
\* =========================================================================
\* ---- claim helpers
RECURSIVE SumOfPoints(_)
\* the sum of the points fields of a set of adjustment records
SumOfPoints(adjs) ==
    IF adjs = {} THEN 0
    ELSE LET a == CHOOSE x \in adjs : TRUE
         IN a.points + SumOfPoints(adjs \ {a})

\* C38: while no request is in flight, the points of every staff member, who all
\* started with 0 points, equal the sum of the points fields of their PointAdjustment
\* records.
C38_LedgerGivesBalance ==
    InFlight = {} =>
       \A s \in Staff :
          users[s] # NoUser =>
             users[s].points = SumOfPoints({a \in adjustments : a.staffId = s})

\* =========================================================================
\* Self sign-ups that overlap: POST /signups as its read and its write
\* =========================================================================
\* the handler up to its write: the event is read and the checks are made on that copy
StartSignUp(r, eventId, staffId) ==
    /\ nops < MaxOps
    /\ reqs[r].pc = "idle"
    /\ users[staffId] # NoUser
    /\ LET event == events[eventId]
       IN IF event = NoEvent
          THEN /\ last' = [Answer("signUp", 404, eventId) EXCEPT !.staffId = staffId]
               /\ sent' = <<>>
               /\ UNCHANGED reqs
          ELSE IF Includes(event.signedUpStaff, staffId) \/ event.date < now
          THEN /\ last' = [Answer("signUp", 400, eventId) EXCEPT !.staffId = staffId]
               /\ sent' = <<>>
               /\ UNCHANGED reqs
          ELSE /\ reqs' = [reqs EXCEPT ![r] =
                             [Idle EXCEPT !.pc = "setEvent", !.op = "signUp",
                                          !.eventId = eventId, !.staffId = staffId,
                                          !.event = event]]
               /\ UNCHANGED <<last, sent>>
    /\ nops' = nops + 1
    /\ UNCHANGED events
    /\ EventFrame

\* kv.set of updatedEvent, the copy read at the start with the caller added
SignUpSetEvent(r) ==
    /\ reqs[r].pc = "setEvent"
    /\ reqs[r].op = "signUp"
    /\ LET event == reqs[r].event
           updatedEvent == [event EXCEPT !.signedUpStaff = Append(@, reqs[r].staffId),
                                         !.signUpTimestamps = @ \cup {reqs[r].staffId}]
       IN /\ events' = [events EXCEPT ![reqs[r].eventId] = updatedEvent]
          /\ Respond(r, [Outcome("signUp", 200) EXCEPT !.before = event], <<>>)
    /\ UNCHANGED nops
    /\ EventFrame

InitSignUpSteps ==
    /\ levels = SeedLevels
    /\ users = [i \in Staff |-> NewStaff(0, "L1", FALSE, FALSE)]
    /\ \E status \in {NoStatus, "open"}, k \in {"L1", "L2"} :
          events = [e \in EventIds |-> IF e = "e1" THEN NewEvent(status, k, 1) ELSE NoEvent]
    /\ adjustments = {}
    /\ channels = [telegram |-> FALSE, whatsapp |-> FALSE, email |-> FALSE]
    /\ now \in {0, MaxClock}
    /\ reqs = [r \in ReqIds |-> Idle]
    /\ last = Outcome("none", 0)
    /\ sent = <<>>
    /\ credited = [i \in Staff |-> 0]
    /\ overlapped = FALSE
    /\ nops = 0
    /\ session = Admin
    /\ notice = NoNotices

NextSignUpSteps ==
    \/ \E r \in ReqIds, e \in EventIds, s \in Staff :
          (InFlight # ReqIds /\ r = FirstIdle) /\ StartSignUp(r, e, s)
    \/ \E r \in ReqIds : SignUpSetEvent(r)
    \/ \E e \in EventIds, s \in Staff : InFlight = {} /\ CancelSignUp(e, s)

SpecSignUpSteps == InitSignUpSteps /\ [][NextSignUpSteps]_vars

\* C39: when a self sign-up is accepted, the staff members signed up in the store,
\* among them one whose sign-up overlapped this one, stay signed up with their
\* timestamps, and the caller is added with a timestamp.
C39_OverlappingSignUpsBothKept ==
    [][\A r \in ReqIds :
          (reqs[r].pc = "setEvent" /\ reqs[r].op = "signUp" /\ reqs'[r].pc = "idle") =>
             LET e == reqs[r].eventId
             IN /\ \A s \in Staff :
                      Includes(events[e].signedUpStaff, s) =>
                         /\ Includes(events'[e].signedUpStaff, s)
                         /\ s \in events'[e].signUpTimestamps
                /\ Includes(events'[e].signedUpStaff, reqs[r].staffId)
                /\ reqs[r].staffId \in events'[e].signUpTimestamps]_vars

\* =========================================================================
\* The notification window of cancel: closes and awards while a cancel is sending
\* =========================================================================
MaxWindowOps == 2

NextCancelWindow ==
    \/ \E r \in ReqIds, s \in Staff :
          (nops < MaxWindowOps /\ InFlight # ReqIds /\ r = FirstIdle)
             /\ StartConfirmOne(r, "e1", s)
    \/ \E r \in ReqIds :
          (nops < MaxWindowOps /\ InFlight # ReqIds /\ r = FirstIdle)
             /\ StartConfirmAll(r, "e1")
    \/ \E r \in ReqIds : ConfirmGetEvent(r)
    \/ \E r \in ReqIds : ConfirmGetStaff(r)
    \/ \E r \in ReqIds : ConfirmCalcLevel(r)
    \/ \E r \in ReqIds : ConfirmSetStaff(r)
    \/ \E r \in ReqIds : ConfirmSetEvent(r)
    \/ \E r \in ReqIds : ConfirmSetAdjustment(r)
    \/ \E r \in ReqIds : ConfirmSendEmail(r)
    \/ \E approvedStaffIds \in Lists(Staff) :
          nops < MaxWindowOps /\ CloseEvent("e1", approvedStaffIds)
    \/ \E r \in ReqIds :
          (nops < MaxWindowOps /\ InFlight # ReqIds /\ r = FirstIdle) /\ StartCancel(r, "e1")
    \/ \E r \in ReqIds : CancelNotify(r)

SpecCancelWindow == InitAward /\ [][NextCancelWindow]_vars

\* C40: the write at the end of a cancel leaves confirmedStaff and pointsAwarded of
\* the event as they are in the store, so a close or an award made while the cancel
\* was sending its notices is kept.
C40_PurgeKeepsWindowWrites ==
    [][\A r \in ReqIds :
          (reqs[r].pc = "notify" /\ reqs[r].op = "cancel" /\ reqs'[r].pc = "idle") =>
             LET e == reqs[r].eventId
             IN /\ events'[e].confirmedStaff = events[e].confirmedStaff
                /\ events'[e].pointsAwarded = events[e].pointsAwarded]_vars

====
